---- MODULE Spec2Model ----
(***************************************************************************)
(* RaceIQ Pro: lap-time reconstruction (data_processing.py), the batch     *)
(* telemetry aggregator (preprocess_telemetry.py) and the cached telemetry *)
(* loader (telemetry.py), as state machines.                               *)
(*                                                                         *)
(* Conventions.  An optional value (a pandas NA / NaN / NaT, or a value)   *)
(* is a sequence of length 0 or 1.  A spreadsheet cell is a record that    *)
(* tells a number (kept in tenths, so 1.5 is 15) from a text.  Times are   *)
(* whole seconds after the session start T.                                *)
(***************************************************************************)
EXTENDS Integers, Sequences, FiniteSets, TLC

VARIABLES
  end_df,      \* the lap-end sheet read by build_laps
  time_df,     \* the lap-time sheet read by build_laps
  laps_pc,     \* "input" while the sheets are being filled, "built" after build_laps
  end_laps,    \* build_laps' local end_laps: [raised, rows]
  time_laps,   \* build_laps' local time_laps: [raised, rows]
  laps         \* what build_laps gave: [raised, rows]

VARIABLES
  raw_csv,            \* the race's raw telemetry CSV: [exists, rows]
  chunk_size,         \* CHUNK_SIZE of the run
  agg_pc,             \* where aggregate_telemetry_file stands
  chunk_num,          \* chunks read so far
  aggregated_chunks,  \* the per-chunk aggregates
  pivot_df,           \* the wide table to be written
  parquet_file        \* the file at output_path: [state, table]

lapVars == <<end_df, time_df, laps_pc, end_laps, time_laps, laps>>
VARIABLES
  use_aggregated,  \* the value of config.USE_AGGREGATED_TELEMETRY in this process
  agg_files,       \* the aggregated artifact at each race's path
  csv_files,       \* the raw telemetry CSV at each race's path
  cache,           \* st.cache_data's entries of load_telemetry, by argument
  compute_lock,    \* the cache's per-key compute lock: its holder, or "free"
  sess,            \* each session's call of load_telemetry
  cache_writes     \* how many times each entry was written (history)

aggVars == <<raw_csv, chunk_size, agg_pc, chunk_num, aggregated_chunks, pivot_df,
             parquet_file>>
loadVars == <<use_aggregated, agg_files, csv_files, cache, compute_lock, sess,
              cache_writes>>
VARIABLES
  tel_long,    \* a long-format telemetry table held by a caller
  tel_wide,    \* the same samples as a wide table held by a caller
  ex_vehicle,  \* the vehicle_id argument: absent (None) or a string
  ex_range,    \* the lap_range argument: absent (None) or <<min, max>>
  long_out,    \* what the successive calls on tel_long returned
  wide_out     \* what the successive calls on tel_wide returned

extractVars == <<tel_long, tel_wide, ex_vehicle, ex_range, long_out, wide_out>>

VARIABLES
  lap_time_s,       \* a lap_time_s column: optional times, in tenths of a second
  consistency_out,  \* <<>>, or <<what rolling_consistency returned for it>>
  best_out          \* <<>>, or <<what best_lap returned for it>>

statsVars == <<lap_time_s, consistency_out, best_out>>

VARIABLES
  main_pc,      \* where preprocess_telemetry.main stands
  inputs,       \* the raw CSV at each race's input path, as main finds it
  outputs,      \* the file at each race's output path
  written,      \* the races whose artifact this run has written
  printed,      \* the kinds of message printed so far
  exit_status   \* <<>> while the process runs, then <<status>>

mainVars == <<main_pc, inputs, outputs, written, printed, exit_status>>

VARIABLES
  selected_race,       \* st.session_state.selected_race
  selected_vehicle,    \* st.session_state.selected_vehicle: absent (None) or a string
  current_lap_filter,  \* st.session_state.current_lap_filter
  lap_live,            \* st.session_state.lap_live
  last_lap_update,     \* st.session_state.last_lap_update: absent (no such key) or <<time>>
  now,                 \* time.time(), in whole seconds
  run_pc,              \* how far the current script run has come
  race_laps,           \* by race, the greatest lap of build_laps' table; 0 for an empty table
  kpi_out,             \* <<>>, or <<the estimates calculate_kpis showed>>
  fuel_out,            \* <<>>, or <<the chart the fuel tab drew: lap -> fuel>>
  tyres_out            \* <<>>, or <<the chart the tyres tab drew: lap -> tyre life>>

sessionVars == <<selected_race, selected_vehicle, current_lap_filter, lap_live,
                 last_lap_update, now, run_pc, race_laps>>
uiVars == <<sessionVars, kpi_out, fuel_out, tyres_out>>

vars == <<lapVars, aggVars, loadVars, extractVars, statsVars, mainVars, uiVars>>

\* the variables of the other components
notLap == <<aggVars, loadVars, extractVars, statsVars, mainVars, uiVars>>
notAgg == <<lapVars, loadVars, extractVars, statsVars, mainVars, uiVars>>
notLoad == <<lapVars, aggVars, extractVars, statsVars, mainVars, uiVars>>
notExtract == <<lapVars, aggVars, loadVars, statsVars, mainVars, uiVars>>
notStats == <<lapVars, aggVars, loadVars, extractVars, mainVars, uiVars>>
notMain == <<lapVars, loadVars, extractVars, statsVars, uiVars>>
notUi == <<lapVars, aggVars, loadVars, extractVars, statsVars, mainVars>>

-----------------------------------------------------------------------------
(* Optional values and cells *)

Absent == <<>>
Present(x) == <<x>>
IsPresent(o) == o # <<>>

NumCell(t) == [kind |-> "num", tenths |-> t, text |-> ""]
TextCell(s) == [kind |-> "text", tenths |-> 0, text |-> s]

\* str(n) for the whole numbers that occur as vehicle ids
IntText == (7 :> "7" @@ 12 :> "12")
\* the texts pandas.to_numeric parses, with their value in tenths
NumericText == ("2" :> 20 @@ "40" :> 400 @@ "60" :> 600)
\* the texts pandas.to_datetime parses, in seconds after T
TimeText == ("T+0" :> 0 @@ "T+90" :> 90 @@ "T+181" :> 181)
\* lexicographic order of the canonical vehicle ids ("12" < "7")
SortedIds == <<"12", "7">>
IdRank(s) == CHOOSE i \in 1..Len(SortedIds) : SortedIds[i] = s

\* Series.astype(str) on one cell
astype_str(c) == IF c.kind = "num" THEN IntText[c.tenths \div 10] ELSE c.text

\* pandas.to_numeric(errors="coerce") on one cell: a float (in tenths) or NaN
to_numeric(c) ==
  IF c.kind = "num" THEN Present(c.tenths)
  ELSE IF c.text \in DOMAIN NumericText THEN Present(NumericText[c.text])
  ELSE Absent

\* to_dt on one cell: seconds after T, or NaT when the text does not parse
to_dt(c) ==
  IF c.kind = "text" /\ c.text \in DOMAIN TimeText THEN Present(TimeText[c.text])
  ELSE Absent

-----------------------------------------------------------------------------
(* config.py *)

ID_COL == "vehicle_id"
LAP_COL == "lap"
TIME_COLS_END == <<"timestamp", "meta_time">>
TIME_COLS_TIME == <<"timestamp">>
LIVE_MODE_UPDATE_INTERVAL == 5
DEFAULT_START_LAP == 5

-----------------------------------------------------------------------------
(* compute_lap_time_from_timestamps *)

\* the empty typed table every early return gives
EmptyLaps == [raised |-> FALSE, rows |-> <<>>]
\* an exception that leaves the function
Raised == [raised |-> TRUE, rows |-> <<>>]

\* the last candidate that the table has
RECURSIVE PickTsCol_last(_, _)
PickTsCol_last(time_cols, cols) ==
  IF time_cols = <<>> THEN Absent
  ELSE IF Len(time_cols) > 1 /\ PickTsCol_last(Tail(time_cols), cols) # <<>>
       THEN PickTsCol_last(Tail(time_cols), cols)
  ELSE IF Head(time_cols) \in cols THEN <<Head(time_cols)>>
  ELSE <<>>

\* the first candidate time column that the table has, or Absent
RECURSIVE PickTsCol(_, _)
PickTsCol(time_cols, cols) ==
  IF time_cols = <<>> THEN Absent
  ELSE IF Head(time_cols) \in cols THEN Present(Head(time_cols))
  ELSE PickTsCol(Tail(time_cols), cols)

\* .astype("Int64") refuses a float column holding a non-integer value
Int64CastFails(rows, lap_col) ==
  \E i \in 1..Len(rows) :
    LET n == to_numeric(rows[i][lap_col]) IN IsPresent(n) /\ n[1] % 10 # 0

\* the lap as an Int64 (or NA) once the cast went through
astype_Int64(n) == IF IsPresent(n) THEN Present(n[1] \div 10) ELSE Absent

\* base without the rows whose time does not parse
BaseRows_parsed(rows, id_col, lap_col, ts_col) ==
  LET kept == SelectSeq(rows, LAMBDA r : IsPresent(to_dt(r[ts_col])))
  IN [i \in 1..Len(kept) |->
        [vehicle_id |-> astype_str(kept[i][id_col]),
         lap |-> astype_Int64(to_numeric(kept[i][lap_col])),
         ts |-> to_dt(kept[i][ts_col])]]

\* base: id as text, lap as Int64, __ts__ as datetime
BaseRows(rows, id_col, lap_col, ts_col) ==
  [i \in 1..Len(rows) |->
     [vehicle_id |-> astype_str(rows[i][id_col]),
      lap |-> astype_Int64(to_numeric(rows[i][lap_col])),
      ts |-> to_dt(rows[i][ts_col])]]

\* x sorts strictly before y; NA sorts last
OptLess(x, y) == IsPresent(x) /\ (~IsPresent(y) \/ x[1] < y[1])
RowLess(a, b) == OptLess(a.lap, b.lap) \/ (a.lap = b.lap /\ OptLess(a.ts, b.ts))

RECURSIVE InsertSorted(_, _)
InsertSorted(r, s) ==
  IF s = <<>> THEN <<r>>
  ELSE IF RowLess(r, Head(s)) THEN <<r>> \o s
  ELSE <<Head(s)>> \o InsertSorted(r, Tail(s))

\* sort_values left out: the rows stay in sheet order
sort_values_skipped(g) == g

\* g.sort_values([lap_col, "__ts__"]): stable, ascending, NA last
RECURSIVE sort_values(_)
sort_values(g) ==
  IF g = <<>> THEN <<>>
  ELSE InsertSorted(g[Len(g)], sort_values(SubSeq(g, 1, Len(g) - 1)))

\* g["__ts__"].diff().dt.total_seconds() at row i
diff_seconds(g, i) ==
  IF i = 1 THEN Absent
  ELSE IF IsPresent(g[i].ts) /\ IsPresent(g[i - 1].ts)
       THEN Present(g[i].ts[1] - g[i - 1].ts[1])
  ELSE Absent

per_id(g0) ==
  LET g == sort_values(g0) IN
  [i \in 1..Len(g) |->
     [vehicle_id |-> g[i].vehicle_id, lap |-> g[i].lap,
      lap_time_s |-> diff_seconds(g, i)]]

OfVehicle(base, k) == SelectSeq(base, LAMBDA r : r.vehicle_id = k)

\* base.groupby(id_col, group_keys=False).apply(per_id): the groups in key order
RECURSIVE groupby_apply(_, _)
groupby_apply(base, keys) ==
  IF keys = <<>> THEN <<>>
  ELSE per_id(OfVehicle(base, Head(keys))) \o groupby_apply(base, Tail(keys))

SameKey(a, b) == a.vehicle_id = b.vehicle_id /\ a.lap = b.lap

\* drop_duplicates(subset=[id_col, lap_col], keep="first")
RECURSIVE drop_duplicates_first(_)
drop_duplicates_first(s) ==
  IF s = <<>> THEN <<>>
  ELSE IF \E j \in 1..(Len(s) - 1) : SameKey(s[j], s[Len(s)])
       THEN drop_duplicates_first(SubSeq(s, 1, Len(s) - 1))
  ELSE drop_duplicates_first(SubSeq(s, 1, Len(s) - 1)) \o <<s[Len(s)]>>

\* drop_duplicates left out
drop_duplicates_skipped(s) == s

\* drop_duplicates(subset=[id_col, lap_col], keep="last")
RECURSIVE drop_duplicates(_)
drop_duplicates(s) ==
  IF s = <<>> THEN <<>>
  ELSE IF \E j \in 2..Len(s) : SameKey(s[j], s[1]) THEN drop_duplicates(Tail(s))
  ELSE <<Head(s)>> \o drop_duplicates(Tail(s))

compute_lap_time_from_timestamps(df, id_col, lap_col, time_cols) ==
  IF ~df.present \/ df.rows = <<>> \/ df.cols = {} THEN EmptyLaps
  ELSE IF id_col \notin df.cols \/ lap_col \notin df.cols THEN EmptyLaps
  ELSE LET ts_col == PickTsCol(time_cols, df.cols) IN
    IF ts_col = Absent THEN EmptyLaps
    ELSE IF Int64CastFails(df.rows, lap_col) THEN Raised
    ELSE [raised |-> FALSE,
          rows |-> drop_duplicates(
                     groupby_apply(BaseRows(df.rows, id_col, lap_col, ts_col[1]),
                                   SortedIds))]

-----------------------------------------------------------------------------
(* build_laps *)

RECURSIVE Flatten(_)
Flatten(ss) == IF ss = <<>> THEN <<>> ELSE Head(ss) \o Flatten(Tail(ss))

\* pd.merge(left[[id, lap]], right, on=[id, lap], how="outer"): lap_time_s is
\* the right table's; a left key without a match gets NaN
merge_outer(left, right) ==
  LET matches(l) == SelectSeq(right, LAMBDA r : SameKey(l, r))
      leftPart == Flatten([i \in 1..Len(left) |->
                    IF matches(left[i]) = <<>>
                    THEN <<[vehicle_id |-> left[i].vehicle_id, lap |-> left[i].lap,
                            lap_time_s |-> Absent]>>
                    ELSE matches(left[i])])
      rightOnly == SelectSeq(right,
                     LAMBDA r : \A i \in 1..Len(left) : ~SameKey(left[i], r))
  IN leftPart \o rightOnly

\* a sorts strictly before b under sort_values([ID_COL, LAP_COL])
KeyLess(a, b) ==
  \/ IdRank(a.vehicle_id) < IdRank(b.vehicle_id)
  \/ a.vehicle_id = b.vehicle_id /\ OptLess(a.lap, b.lap)

RECURSIVE InsertByKey(_, _)
InsertByKey(r, s) ==
  IF s = <<>> THEN <<r>>
  ELSE IF KeyLess(r, Head(s)) THEN <<r>> \o s
  ELSE <<Head(s)>> \o InsertByKey(r, Tail(s))

RECURSIVE sort_by_key(_)
sort_by_key(s) ==
  IF s = <<>> THEN <<>>
  ELSE InsertByKey(s[Len(s)], sort_by_key(SubSeq(s, 1, Len(s) - 1)))

\* dropna left out
dropna_lap_skipped(s) == s

\* merged.dropna(subset=[LAP_COL])
dropna_lap(s) == SelectSeq(s, LAMBDA r : IsPresent(r.lap))

\* end_laps[[ID_COL, LAP_COL]]
KeyColumns(s) == [i \in 1..Len(s) |-> [vehicle_id |-> s[i].vehicle_id, lap |-> s[i].lap]]

\* the merge with the gaps filled from the end-log durations
merge_laps_filled(el, tl) ==
  LET m == IF tl # <<>> THEN merge_outer(KeyColumns(el), tl) ELSE el
      fill(r) == LET hit == SelectSeq(el, LAMBDA x : SameKey(x, r))
                 IN IF r.lap_time_s = <<>> /\ hit # <<>>
                    THEN [r EXCEPT !.lap_time_s = hit[1].lap_time_s] ELSE r
  IN [i \in 1..Len(m) |-> fill(m[i])]

\* the merge with its two tables swapped: the end-log durations win
merge_laps_swapped(el, tl) ==
  IF tl # <<>> THEN merge_outer(KeyColumns(tl), el) ELSE el

\* the merge step of build_laps: the time-log table merged onto the end-log
\* keys when it has rows, the end-log table alone otherwise
merge_laps(el, tl) ==
  IF tl # <<>> THEN merge_outer(KeyColumns(el), tl) ELSE el

\* the last step of build_laps: rows without a lap dropped, the rest sorted
finish_laps(merged) ==
  IF merged # <<>> THEN sort_by_key(dropna_lap(merged)) ELSE merged

\* build_laps from its two reconstructed tables; an exception of either
\* call leaves build_laps
build_laps(el, tl) ==
  IF el.raised \/ tl.raised THEN Raised
  ELSE [raised |-> FALSE, rows |-> finish_laps(merge_laps(el.rows, tl.rows))]

-----------------------------------------------------------------------------
(* Telemetry tables.  A long table is a sequence of samples; a wide table   *)
(* (pivot format) is the set of its filled cells: a row (vehicle_id, lap)   *)
(* and a column telemetry_name exist when a cell of them does.  Means are   *)
(* exact fractions <<numerator, denominator>> in lowest terms.              *)

RECURSIVE Gcd(_, _)
Gcd(a, b) == IF b = 0 THEN a ELSE Gcd(b, a % b)
Frac(n, d) == LET g == Gcd(n, d) IN <<n \div g, d \div g>>
FracAdd(x, y) == Frac(x[1] * y[2] + y[1] * x[2], x[2] * y[2])

RECURSIVE FracSum(_)
FracSum(fs) == IF fs = <<>> THEN <<0, 1>> ELSE FracAdd(Head(fs), FracSum(Tail(fs)))

mean_counted(vals) ==
  LET given == SelectSeq(vals, LAMBDA v : v # <<>>)
  IN IF given = <<>> THEN Absent ELSE Present(<<Len(given), 1>>)

\* Series.mean() of optional fractions: NaN is skipped; NaN when nothing is left
mean(vals) ==
  LET given == SelectSeq(vals, LAMBDA v : v # <<>>)
      total == FracSum([i \in 1..Len(given) |-> given[i][1]])
  IN IF given = <<>> THEN Absent
     ELSE Present(Frac(total[1], total[2] * Len(given)))

\* pd.to_numeric(errors='coerce') on a telemetry_value cell, as a fraction
value_to_numeric(c) ==
  LET n == to_numeric(c) IN IF n = <<>> THEN Absent ELSE Present(Frac(n[1], 10))

Triple(r) == <<r.vehicle_id, r.lap, r.telemetry_name>>

\* a chunk with telemetry_value coerced (lines 89-93)
CoerceValues(rows) ==
  [i \in 1..Len(rows) |->
     [vehicle_id |-> rows[i].vehicle_id, lap |-> rows[i].lap,
      telemetry_name |-> rows[i].telemetry_name,
      telemetry_value |-> value_to_numeric(rows[i].telemetry_value)]]

\* groupby([ID_COL, LAP_COL, 'telemetry_name']).agg({'telemetry_value': 'mean'})
\* of rows whose telemetry_value is already numeric or NaN
groupby_mean(rows) ==
  LET of(k) == SelectSeq(rows, LAMBDA r : Triple(r) = k)
      vals(k) == [i \in 1..Len(of(k)) |-> of(k)[i].telemetry_value]
  IN {[vehicle_id |-> k[1], lap |-> k[2], telemetry_name |-> k[3],
       telemetry_value |-> mean(vals(k))] : k \in {Triple(rows[i]) : i \in 1..Len(rows)}}

\* a set of aggregate rows as a sequence (pd.concat of the chunks' tables)
RECURSIVE SetToSeq(_)
SetToSeq(S) ==
  IF S = {} THEN <<>> ELSE LET x == CHOOSE x \in S : TRUE IN <<x>> \o SetToSeq(S \ {x})

RECURSIVE concat(_)
concat(chunks) ==
  IF chunks = <<>> THEN <<>> ELSE SetToSeq(Head(chunks)) \o concat(Tail(chunks))

\* pivot_table(index=[ID_COL, LAP_COL], columns='telemetry_name',
\* values='telemetry_value', aggfunc='mean'): the mean per cell; a cell
\* whose mean is NaN is not filled
pivot_table(rows) ==
  {[vehicle_id |-> a.vehicle_id, lap |-> a.lap, telemetry_name |-> a.telemetry_name,
    value |-> a.telemetry_value[1]] :
      a \in {g \in groupby_mean(rows) : g.telemetry_value # <<>>}}

-----------------------------------------------------------------------------
(* preprocess_telemetry.py: aggregate_telemetry_file *)

\* the k-th chunk (from 0) of the CSV under the run's chunk size
ChunkRows(rows, size, k) ==
  SubSeq(rows, k * size + 1, IF (k + 1) * size < Len(rows) THEN (k + 1) * size ELSE Len(rows))

\* one pass of the loop body: coerce, group, mean (lines 82-102)
aggregate_chunk(chunk) == groupby_mean(CoerceValues(chunk))

\* the first chunk's aggregates alone
combine_chunks_first(chunks) ==
  IF chunks = <<>> THEN {} ELSE pivot_table(SetToSeq(Head(chunks)))

\* lines 111-128: concat, the final groupby-mean, the pivot
combine_chunks(chunks) == pivot_table(SetToSeq(groupby_mean(concat(chunks))))

NoFile == [state |-> "absent", table |-> {}]
CompleteFile(t) == [state |-> "complete", table |-> t]
\* a file opened for writing and not yet closed: no readable table in it
PartialFile == [state |-> "partial", table |-> {}]

\* the aggregator has not been started
AggIdle ==
  /\ raw_csv = [exists |-> FALSE, rows |-> <<>>]
  /\ chunk_size = 1
  /\ agg_pc = "idle"
  /\ chunk_num = 0
  /\ aggregated_chunks = <<>>
  /\ pivot_df = {}
  /\ parquet_file = NoFile

\* lines 61-72: the input is looked for; without it the function returns
AggStart ==
  /\ agg_pc = "start"
  /\ agg_pc' = IF raw_csv.exists THEN "reading" ELSE "returned"
  /\ UNCHANGED <<raw_csv, chunk_size, chunk_num, aggregated_chunks, pivot_df, parquet_file>>
  /\ UNCHANGED notAgg

\* lines 81-105: the next chunk is read and aggregated
ReadChunk ==
  /\ agg_pc = "reading"
  /\ chunk_num * chunk_size < Len(raw_csv.rows)
  /\ aggregated_chunks' =
       Append(aggregated_chunks, aggregate_chunk(ChunkRows(raw_csv.rows, chunk_size, chunk_num)))
  /\ chunk_num' = chunk_num + 1
  /\ UNCHANGED <<raw_csv, chunk_size, agg_pc, pivot_df, parquet_file>>
  /\ UNCHANGED notAgg

\* lines 107-128: after the last chunk
CombineChunks ==
  /\ agg_pc = "reading"
  /\ chunk_num * chunk_size >= Len(raw_csv.rows)
  /\ pivot_df' = combine_chunks(aggregated_chunks)
  /\ agg_pc' = "saving"
  /\ UNCHANGED <<raw_csv, chunk_size, chunk_num, aggregated_chunks, parquet_file>>
  /\ UNCHANGED notAgg

\* the file to_parquet has opened at output_path, before it is closed
OpenedForWrite(old) == PartialFile

\* lines 132-136: to_parquet opens output_path for writing
WriteBegin ==
  /\ agg_pc = "saving"
  /\ parquet_file' = OpenedForWrite(parquet_file)
  /\ agg_pc' = "writing"
  /\ UNCHANGED <<raw_csv, chunk_size, chunk_num, aggregated_chunks, pivot_df>>
  /\ UNCHANGED notAgg

\* lines 132-148: to_parquet has written and closed the file; the report
WriteEnd ==
  /\ agg_pc = "writing"
  /\ parquet_file' = CompleteFile(pivot_df)
  /\ agg_pc' = "returned"
  /\ UNCHANGED <<raw_csv, chunk_size, chunk_num, aggregated_chunks, pivot_df>>
  /\ UNCHANGED notAgg

\* lines 150-154: an exception while reading, parsing or writing: sys.exit(1)
AggFails ==
  /\ agg_pc \in {"reading", "saving", "writing"}
  /\ agg_pc' = "exit1"
  /\ UNCHANGED <<raw_csv, chunk_size, chunk_num, aggregated_chunks, pivot_df, parquet_file>>
  /\ UNCHANGED notAgg

\* the process is interrupted (killed) while it runs
AggInterrupted ==
  /\ agg_pc \in {"start", "reading", "saving", "writing"}
  /\ agg_pc' = "killed"
  /\ UNCHANGED <<raw_csv, chunk_size, chunk_num, aggregated_chunks, pivot_df, parquet_file>>
  /\ UNCHANGED notAgg


-----------------------------------------------------------------------------
(* telemetry.py: load_telemetry *)

\* pd.to_datetime(errors='coerce') on a timestamp cell
to_datetime(c) ==
  IF c.kind = "text" /\ c.text \in DOMAIN TimeText THEN Present(TimeText[c.text])
  ELSE Absent

\* the three shapes of table load_telemetry hands out
WideFrame(t) == [kind |-> "wide", rows |-> <<>>, table |-> t]
LongFrame(rs) == [kind |-> "long", rows |-> rs, table |-> {}]
EmptyFrame == [kind |-> "empty", rows |-> <<>>, table |-> {}]

Returns(df) == [raised |-> FALSE, df |-> df]
Raises == [raised |-> TRUE, df |-> EmptyFrame]

\* lines 39-44: "Race 1" has its own files, every other name has Race 2's
PathsOf(race) == IF race = "Race 1" THEN "R1" ELSE "R2"

\* os.path.exists
exists(file) == file.state # "absent"

\* pd.read_parquet: a file that is not a complete parquet file raises
read_parquet(file) ==
  IF file.state = "complete" THEN Returns(WideFrame(file.table)) ELSE Raises

\* pd.read_csv, then lines 66-72: timestamp and telemetry_value coerced
read_csv_coerced(file) ==
  IF file.state = "ok"
  THEN Returns(LongFrame(
         [i \in 1..Len(file.rows) |->
            [vehicle_id |-> file.rows[i].vehicle_id, lap |-> file.rows[i].lap,
             telemetry_name |-> file.rows[i].telemetry_name,
             telemetry_value |-> value_to_numeric(file.rows[i].telemetry_value),
             timestamp |-> to_datetime(file.rows[i].timestamp)]]))
  ELSE Raises

AggregatedAttempt_skipped(flag, agg) == Absent

\* lines 47-60: the artifact when enabled, there and readable; a failed read
\* is swallowed
AggregatedAttempt(flag, agg) ==
  IF flag /\ exists(agg) /\ ~read_parquet(agg).raised
  THEN Present(read_parquet(agg).df)
  ELSE Absent

\* lines 63-77: the raw CSV when it is there, else an empty DataFrame
CsvFallback(csv) ==
  IF exists(csv) THEN read_csv_coerced(csv) ELSE Returns(EmptyFrame)

\* lines 37-80: the body inside the outer try, whose except returns an empty
\* DataFrame
load_telemetry(flag, agg, csv) ==
  LET first == AggregatedAttempt(flag, agg)
      body == IF first # <<>> THEN Returns(first[1]) ELSE CsvFallback(csv)
  IN IF body.raised THEN Returns(EmptyFrame) ELSE body

-----------------------------------------------------------------------------
(* @st.cache_data around load_telemetry (telemetry.py line 23): the cache   *)
(* is read; on a miss the key's compute lock is taken, the cache is read    *)
(* again, and only then the function runs and its value is written.  Each   *)
(* caller gets a copy of the stored value.                                   *)

Sessions == {"s1", "s2"}
Races == {"Race 1", "Race 2"}
Paths == {"R1", "R2"}

\* a path without a raw CSV
NoCsv == [state |-> "absent", rows |-> <<>>]

IdleCall == [pc |-> "idle", race |-> "", df |-> EmptyFrame, seen_agg |-> NoFile,
             seen_csv |-> NoCsv, ret |-> <<>>]

\* no session has called load_telemetry, nothing is on disk
LoadIdle ==
  /\ use_aggregated = TRUE
  /\ agg_files = [p \in Paths |-> NoFile]
  /\ csv_files = [p \in Paths |-> NoCsv]
  /\ cache = [r \in Races |-> <<>>]
  /\ compute_lock = [r \in Races |-> "free"]
  /\ sess = [s \in Sessions |-> IdleCall]
  /\ cache_writes = [r \in Races |-> 0]

\* a session's script reaches load_telemetry(race)
Call(s, race) ==
  /\ sess[s].pc = "idle"
  /\ sess' = [sess EXCEPT ![s] = [IdleCall EXCEPT !.pc = "lookup", !.race = race]]
  /\ UNCHANGED <<use_aggregated, agg_files, csv_files, cache, compute_lock, cache_writes>>
  /\ UNCHANGED notLoad

\* the cache is read without the lock: a hit returns the entry
Lookup(s) ==
  /\ sess[s].pc = "lookup"
  /\ sess' = [sess EXCEPT ![s] =
       IF cache[sess[s].race] # <<>>
       THEN [IdleCall EXCEPT !.ret = cache[sess[s].race]]
       ELSE [@ EXCEPT !.pc = "wait"]]
  /\ UNCHANGED <<use_aggregated, agg_files, csv_files, cache, compute_lock, cache_writes>>
  /\ UNCHANGED notLoad

HitUnderLock_skipped(race) == FALSE

\* the second read of the cache, made with the compute lock held
HitUnderLock(race) == cache[race] # <<>>

\* the compute lock of the key is taken; an entry written meanwhile is returned
AcquireLock(s) ==
  /\ sess[s].pc = "wait"
  /\ compute_lock[sess[s].race] = "free"
  /\ IF HitUnderLock(sess[s].race)
     THEN /\ sess' = [sess EXCEPT ![s] = [IdleCall EXCEPT !.ret = cache[sess[s].race]]]
          /\ UNCHANGED compute_lock
     ELSE /\ sess' = [sess EXCEPT ![s] = [@ EXCEPT !.pc = "compute"]]
          /\ compute_lock' = [compute_lock EXCEPT ![sess[s].race] = s]
  /\ UNCHANGED <<use_aggregated, agg_files, csv_files, cache, cache_writes>>
  /\ UNCHANGED notLoad

\* load_telemetry's body runs on the files as they are now; an exception
\* leaves nothing in the cache and reaches the caller
Compute(s) ==
  /\ sess[s].pc = "compute"
  /\ LET p == PathsOf(sess[s].race)
         r == load_telemetry(use_aggregated, agg_files[p], csv_files[p])
     IN IF r.raised
        THEN /\ sess' = [sess EXCEPT ![s] = [IdleCall EXCEPT !.pc = "raised"]]
             /\ compute_lock' = [compute_lock EXCEPT ![sess[s].race] = "free"]
        ELSE /\ sess' = [sess EXCEPT ![s] = [@ EXCEPT !.pc = "store", !.df = r.df,
                                               !.seen_agg = agg_files[p],
                                               !.seen_csv = csv_files[p]]]
             /\ UNCHANGED compute_lock
  /\ UNCHANGED <<use_aggregated, agg_files, csv_files, cache, cache_writes>>
  /\ UNCHANGED notLoad

\* the value is returned and the lock released, nothing is kept
Store_uncached(s) ==
  /\ sess[s].pc = "store"
  /\ compute_lock' = [compute_lock EXCEPT ![sess[s].race] = "free"]
  /\ sess' = [sess EXCEPT ![s] = [IdleCall EXCEPT !.ret = Present(sess[s].df)]]
  /\ UNCHANGED <<use_aggregated, agg_files, csv_files, cache, cache_writes>>
  /\ UNCHANGED notLoad

\* the value is written to the cache, the lock released, the value returned
Store(s) ==
  /\ sess[s].pc = "store"
  /\ cache' = [cache EXCEPT ![sess[s].race] = Present(sess[s].df)]
  /\ cache_writes' = [cache_writes EXCEPT ![sess[s].race] = @ + 1]
  /\ compute_lock' = [compute_lock EXCEPT ![sess[s].race] = "free"]
  /\ sess' = [sess EXCEPT ![s] = [IdleCall EXCEPT !.ret = Present(sess[s].df)]]
  /\ UNCHANGED <<use_aggregated, agg_files, csv_files>>
  /\ UNCHANGED notLoad

-----------------------------------------------------------------------------
(* telemetry.py: process_telemetry *)

\* channel names in the order pandas sorts column labels (capitals first)
ChannelOrder ==
  <<"PBRAKE_F", "accx_can", "aps", "gear", "nmot", "pbrake_r", "speed">>

\* str(c).lower()
LowerCase == ("PBRAKE_F" :> "pbrake_f")
lower(c) == IF c \in DOMAIN LowerCase THEN LowerCase[c] ELSE c

\* 'pbrake' in s, for the names above
contains_pbrake(s) == s \in {"pbrake_f", "pbrake_r"}

\* the column labels of a frame
columns(df) ==
  IF df.kind = "long"
  THEN {ID_COL, LAP_COL, "telemetry_name", "telemetry_value", "timestamp"}
  ELSE IF df.kind = "wide"
  THEN {ID_COL, LAP_COL} \cup {c.telemetry_name : c \in df.table}
  ELSE {}

\* DataFrame.empty: no row or no column
IsEmptyFrame(df) ==
  \/ df.kind = "empty"
  \/ df.kind = "long" /\ df.rows = <<>>
  \/ df.kind = "wide" /\ df.table = {}

\* line 107
is_pivot_format(df) ==
  "telemetry_name" \notin columns(df) \/ "telemetry_value" \notin columns(df)

\* telemetry_df[ID_COL] == str(vehicle_id): a text equals the same text, a
\* number equals no text
IdIs(cell, vehicle_id) == cell.kind = "text" /\ cell.text = vehicle_id

\* the filters without the lower bound of the lap range
PassesFilters_max_only(r, vehicle_id, lap_range) ==
  /\ vehicle_id # <<>> => IdIs(r.vehicle_id, vehicle_id[1])
  /\ lap_range # <<>> => r.lap <= lap_range[1][2]

PassesFilters_any(r, vehicle_id, lap_range) == TRUE

\* lines 112-121 and 131-140: does a row (or a wide cell's row) pass the filters
PassesFilters(r, vehicle_id, lap_range) ==
  /\ vehicle_id # <<>> => IdIs(r.vehicle_id, vehicle_id[1])
  /\ lap_range # <<>> => r.lap >= lap_range[1][1] /\ r.lap <= lap_range[1][2]

\* the wide table handed on: its channel columns in order, and its filled cells
Pivot(cols, cells) == [cols |-> cols, table |-> cells]
EmptyPivot == Pivot(<<>>, {})

ColumnsInOrder(names) == SelectSeq(ChannelOrder, LAMBDA c : c \in names)
PivotKeys(pv) == {<<c.vehicle_id, c.lap>> : c \in pv.table}

\* telemetry_pivot.set_index([ID_COL, LAP_COL])[col]: by key, the cell or NaN
ColumnSeries(pv, col) ==
  [k \in PivotKeys(pv) |->
     LET hit == {c \in pv.table : <<c.vehicle_id, c.lap>> = k /\ c.telemetry_name = col}
     IN IF hit = {} THEN Absent ELSE Present((CHOOSE c \in hit : TRUE).value)]

brake_cols_reversed(pv) ==
  LET b == SelectSeq(pv.cols, LAMBDA c : contains_pbrake(lower(c)))
  IN [i \in 1..Len(b) |-> b[Len(b) + 1 - i]]

\* lines 167-169
brake_cols(pv) == SelectSeq(pv.cols, LAMBDA c : contains_pbrake(lower(c)))

\* lines 158-181: the source column of each metric, when it is there
MetricColumn(pv) ==
  LET names == {pv.cols[i] : i \in 1..Len(pv.cols)}
      plain == [m \in {"speed", "fuel_usage", "acceleration", "gear", "rpm"} |->
                  CASE m = "speed" -> "speed"
                    [] m = "fuel_usage" -> "aps"
                    [] m = "acceleration" -> "accx_can"
                    [] m = "gear" -> "gear"
                    [] m = "rpm" -> "nmot"]
      found == {m \in DOMAIN plain : plain[m] \in names}
  IN [m \in found \cup (IF brake_cols(pv) # <<>> THEN {"brake_usage"} ELSE {}) |->
        IF m = "brake_usage" THEN brake_cols(pv)[1] ELSE plain[m]]

\* lines 156-183
extract_metrics(pv) ==
  [m \in DOMAIN MetricColumn(pv) |-> ColumnSeries(pv, MetricColumn(pv)[m])]

NoMetrics == [m \in {} |-> <<>>]

CallersTable_filtered(df, filtered) == filtered

\* the caller's table after the call: lines 113, 118, 132 and 137 bind the
\* local name to a new frame and line 127 copies, so the argument is as it was
CallersTable(df, filtered) == df

\* lines 101-183; the result is (metrics, telemetry_pivot), and with it the
\* caller's table after the call
process_telemetry(df, vehicle_id, lap_range) ==
  LET wide_cells == {c \in df.table : PassesFilters(c, vehicle_id, lap_range)}
      long_rows == SelectSeq(df.rows, LAMBDA r : PassesFilters(r, vehicle_id, lap_range))
      filtered == IF df.kind = "wide" THEN WideFrame(wide_cells) ELSE LongFrame(long_rows)
      nothing == [metrics |-> NoMetrics, pivot |-> EmptyPivot]
      out(pv) == [metrics |-> extract_metrics(pv), pivot |-> pv]
  IN IF IsEmptyFrame(df)
     THEN [metrics |-> NoMetrics, pivot |-> EmptyPivot, telemetry_df |-> df]
     ELSE LET res ==
                IF is_pivot_format(df)
                THEN IF wide_cells = {} THEN nothing
                     ELSE out(Pivot(ColumnsInOrder(columns(df) \ {ID_COL, LAP_COL}), wide_cells))
                ELSE IF long_rows = <<>> THEN nothing
                     ELSE LET p == pivot_table(long_rows)
                          IN out(Pivot(ColumnsInOrder({c.telemetry_name : c \in p}), p))
          IN [metrics |-> res.metrics, pivot |-> res.pivot,
              telemetry_df |-> CallersTable(df, filtered)]

MaxCalls == 2

\* no table is held, process_telemetry has not been called
ExtractIdle ==
  /\ tel_long = EmptyFrame
  /\ tel_wide = EmptyFrame
  /\ ex_vehicle = <<>>
  /\ ex_range = <<>>
  /\ long_out = <<>>
  /\ wide_out = <<>>

\* process_telemetry(tel_long, ex_vehicle, ex_range)
ProcessLong ==
  /\ Len(long_out) < MaxCalls
  /\ LET r == process_telemetry(tel_long, ex_vehicle, ex_range)
     IN /\ long_out' = Append(long_out, [metrics |-> r.metrics, pivot |-> r.pivot])
        /\ tel_long' = r.telemetry_df
  /\ UNCHANGED <<tel_wide, ex_vehicle, ex_range, wide_out>>
  /\ UNCHANGED notExtract

\* process_telemetry(tel_wide, ex_vehicle, ex_range)
ProcessWide ==
  /\ Len(wide_out) < MaxCalls
  /\ LET r == process_telemetry(tel_wide, ex_vehicle, ex_range)
     IN /\ wide_out' = Append(wide_out, [metrics |-> r.metrics, pivot |-> r.pivot])
        /\ tel_wide' = r.telemetry_df
  /\ UNCHANGED <<tel_long, ex_vehicle, ex_range, long_out>>
  /\ UNCHANGED notExtract

-----------------------------------------------------------------------------
(* data_processing.py: rolling_consistency and best_lap.  A series entry is  *)
(* optional; lap times are whole tenths of a second.                         *)

\* the k-th smallest of a non-empty sequence of numbers
KthSmallest(vals, k) ==
  LET idx == 1..Len(vals)
  IN vals[CHOOSE i \in idx :
            /\ Cardinality({j \in idx : vals[j] < vals[i]}) < k
            /\ Cardinality({j \in idx : vals[j] <= vals[i]}) >= k]

\* twice the median of a non-empty sequence of numbers
median2(vals) ==
  LET n == Len(vals)
  IN IF n % 2 = 1 THEN 2 * KthSmallest(vals, (n + 1) \div 2)
     ELSE KthSmallest(vals, n \div 2) + KthSmallest(vals, n \div 2 + 1)

\* Series.rolling(window, min_periods).median(), doubled: at each place the
\* median of the values among the last `window` entries, NaN when fewer than
\* min_periods of them are values
rolling_median2(x, window, min_periods) ==
  [i \in 1..Len(x) |->
     LET from == IF i - window + 1 > 1 THEN i - window + 1 ELSE 1
         given == SelectSeq(SubSeq(x, from, i), LAMBDA v : v # <<>>)
     IN IF Len(given) < min_periods THEN Absent
        ELSE Present(median2([j \in 1..Len(given) |-> given[j][1]]))]

abs(n) == IF n < 0 THEN 0 - n ELSE n

MIN_PERIODS == 3
DEFAULT_WINDOW == 8
MAD_SCALE == 14826

\* lines 175-177.  x is in tenths, med in twentieths, mad in fortieths; the
\* result is 1.4826 * mad as a whole number of 1/400000 seconds
rolling_consistency(x, window) ==
  LET med == rolling_median2(x, window, MIN_PERIODS)
      dev == [i \in 1..Len(x) |->
                IF x[i] = <<>> \/ med[i] = <<>> THEN Absent
                ELSE Present(abs(2 * x[i][1] - med[i][1]))]
      mad == rolling_median2(dev, window, MIN_PERIODS)
  IN [i \in 1..Len(x) |->
        IF mad[i] = <<>> THEN Absent ELSE Present(MAD_SCALE * mad[i][1])]

nanmin_zero_filled(s) ==
  LET vals == [i \in 1..Len(s) |-> IF s[i] = <<>> THEN 0 ELSE s[i][1]]
  IN Present(KthSmallest(vals, 1))

\* np.nanmin: the least value, NaN left out; NaN when all are NaN
nanmin(s) ==
  LET given == SelectSeq(s, LAMBDA v : v # <<>>)
  IN IF given = <<>> THEN Absent
     ELSE Present(KthSmallest([i \in 1..Len(given) |-> given[i][1]], 1))

\* lines 190-191
best_lap(s) == IF Len(s) # 0 THEN nanmin(s) ELSE Absent

\* no lap-time column is held, nothing was computed
StatsIdle ==
  /\ lap_time_s = <<>>
  /\ consistency_out = <<>>
  /\ best_out = <<>>

\* rolling_consistency(lap_time_s) with the default window
CallRollingConsistency ==
  /\ consistency_out = <<>>
  /\ consistency_out' = <<rolling_consistency(lap_time_s, DEFAULT_WINDOW)>>
  /\ UNCHANGED <<lap_time_s, best_out>>
  /\ UNCHANGED notStats

\* best_lap of a lap table with this lap_time_s column
CallBestLap ==
  /\ best_out = <<>>
  /\ best_out' = <<best_lap(lap_time_s)>>
  /\ UNCHANGED <<lap_time_s, consistency_out>>
  /\ UNCHANGED notStats

-----------------------------------------------------------------------------
(* preprocess_telemetry.py: main.  The two calls of aggregate_telemetry_file *)
(* are the aggregator's steps above, run on the race's files.                *)

\* the races in the order main takes them, and what comes after each
FirstRace == "R1"
AfterRace == [R1 |-> "check R2", R2 |-> "finish"]
RaceAt == ("check R1" :> "R1" @@ "check R2" :> "R2" @@ "run R1" :> "R1" @@ "run R2" :> "R2")

NoInput == [exists |-> FALSE, rows |-> <<>>]

\* main has not been started
MainIdle ==
  /\ main_pc = "idle"
  /\ inputs = [p \in {"R1", "R2"} |-> NoInput]
  /\ outputs = [p \in {"R1", "R2"} |-> NoFile]
  /\ written = {}
  /\ printed = {}
  /\ exit_status = <<>>

\* lines 165-175: a race whose input is not found is skipped with a warning;
\* otherwise aggregate_telemetry_file is called on its paths
MainCheckInput ==
  /\ main_pc \in {"check R1", "check R2"}
  /\ LET r == RaceAt[main_pc]
     IN IF ~inputs[r].exists
        THEN /\ printed' = printed \cup {"Warning: not found. Skipping"}
             /\ main_pc' = AfterRace[r]
             /\ UNCHANGED aggVars
        ELSE /\ main_pc' = IF r = "R1" THEN "run R1" ELSE "run R2"
             /\ raw_csv' = inputs[r]
             /\ agg_pc' = "start"
             /\ chunk_num' = 0
             /\ aggregated_chunks' = <<>>
             /\ pivot_df' = {}
             /\ parquet_file' = outputs[r]
             /\ UNCHANGED <<chunk_size, printed>>
  /\ UNCHANGED <<inputs, outputs, written, exit_status>>
  /\ UNCHANGED notMain

\* the input file is removed after main has seen it and before
\* aggregate_telemetry_file looks for it
InputVanishes ==
  /\ main_pc \in {"run R1", "run R2"}
  /\ agg_pc = "start"
  /\ raw_csv.exists
  /\ raw_csv' = NoInput
  /\ inputs' = [inputs EXCEPT ![RaceAt[main_pc]] = NoInput]
  /\ UNCHANGED <<chunk_size, agg_pc, chunk_num, aggregated_chunks, pivot_df, parquet_file>>
  /\ UNCHANGED <<main_pc, outputs, written, printed, exit_status>>
  /\ UNCHANGED notMain

\* aggregate_telemetry_file has returned (lines 61-63 without input, line 148
\* after the report); main goes on (lines 168-169, 174-175)
MainAfterAggregate ==
  /\ main_pc \in {"run R1", "run R2"}
  /\ agg_pc = "returned"
  /\ LET r == RaceAt[main_pc]
     IN /\ outputs' = [outputs EXCEPT ![r] = parquet_file]
        /\ written' = IF raw_csv.exists THEN written \cup {r} ELSE written
        /\ printed' = IF raw_csv.exists THEN printed
                      ELSE printed \cup {"Error: Input file not found"}
        /\ main_pc' = AfterRace[r]
  /\ UNCHANGED <<inputs, exit_status>>
  /\ UNCHANGED aggVars
  /\ UNCHANGED notMain

\* lines 150-154: the cause is printed and sys.exit(1) ends the process
MainExitsOnError ==
  /\ main_pc \in {"run R1", "run R2"}
  /\ agg_pc = "exit1"
  /\ outputs' = [outputs EXCEPT ![RaceAt[main_pc]] = parquet_file]
  /\ printed' = printed \cup {"Error processing file"}
  /\ exit_status' = <<1>>
  /\ main_pc' = "exited"
  /\ UNCHANGED <<inputs, written>>
  /\ UNCHANGED aggVars
  /\ UNCHANGED notMain

\* lines 177-181, and the normal end of the script
MainFinish ==
  /\ main_pc = "finish"
  /\ printed' = printed \cup {"Preprocessing complete!"}
  /\ exit_status' = <<0>>
  /\ main_pc' = "exited"
  /\ UNCHANGED <<inputs, outputs, written>>
  /\ UNCHANGED aggVars
  /\ UNCHANGED notMain

-----------------------------------------------------------------------------
(* kpis.py, tabs/fuel.py, tabs/tyres.py: the fuel and tyre-life estimates.   *)
(* Litres and per cent are exact fractions.                                  *)

FracMul(x, y) == Frac(x[1] * y[1], x[2] * y[2])

\* max(0, 100 - x) for a fraction x >= 0
hundred_less(x) ==
  IF x[1] >= 100 * x[2] THEN <<0, 1>> ELSE Frac(100 * x[2] - x[1], x[2])

\* Series.mean() of a metric series
series_mean(series) ==
  LET keys == SetToSeq(DOMAIN series)
  IN mean([i \in 1..Len(keys) |-> series[keys[i]]])

\* fuel_vals.xs(lap, level=LAP_COL).mean()
lap_mean(series, lap) ==
  LET keys == SetToSeq({k \in DOMAIN series : k[2] = lap})
  IN mean([i \in 1..Len(keys) |-> series[keys[i]]])

\* laps[laps[ID_COL] == vehicle] and [LAP_COL] <= current_lap, each filter
\* applied when its value is truthy
laps_filtered(lap_rows, vehicle, current_lap) ==
  SelectSeq(lap_rows, LAMBDA r :
    /\ vehicle # <<>> => r.vehicle_id = vehicle[1]
    /\ current_lap # 0 => r.lap[1] <= current_lap)

\* (1, current_lap) if current_lap else None
lap_range_to(current_lap) == IF current_lap # 0 THEN <<<<1, current_lap>>>> ELSE <<>>

\* kpis.py lines 100-109: the estimate from the average throttle, NaN or not
kpi_fuel_from(avg_throttle, lap) ==
  hundred_less(FracMul(<<lap, 2>>,
                       IF avg_throttle # <<>> THEN FracMul(avg_throttle[1], <<1, 100>>)
                       ELSE <<1, 2>>))

\* kpis.py lines 113 and 115
kpi_fuel_fallback(lap) == hundred_less(<<lap, 2>>)

\* kpis.py lines 130-138
kpi_tyre_from(avg_brake, lap) ==
  hundred_less(FracMul(Frac(3 * lap, 10),
                       IF avg_brake # <<>> THEN FracMul(avg_brake[1], <<1, 100>>)
                       ELSE <<1, 1>>))

\* kpis.py lines 142 and 144
kpi_tyre_fallback(lap) == hundred_less(Frac(3 * lap, 10))

\* kpis.py lines 79-144, with the telemetry table and the lap shown
kpi_estimates(telemetry_df, vehicle, lap) ==
  LET m == process_telemetry(telemetry_df, vehicle, lap_range_to(lap)).metrics
  IN [fuel |-> IF ~IsEmptyFrame(telemetry_df) /\ "fuel_usage" \in DOMAIN m
               THEN kpi_fuel_from(series_mean(m["fuel_usage"]), lap)
               ELSE kpi_fuel_fallback(lap),
      tyre |-> IF ~IsEmptyFrame(telemetry_df) /\ "brake_usage" \in DOMAIN m
               THEN kpi_tyre_from(series_mean(m["brake_usage"]), lap)
               ELSE kpi_tyre_fallback(lap)]

\* fuel.py lines 74-76; max(0, nan) is 0
tab_fuel_from(throttle_usage, lap) ==
  IF throttle_usage = <<>> THEN <<0, 1>>
  ELSE hundred_less(FracMul(<<lap, 2>>, FracMul(throttle_usage[1], <<1, 100>>)))

\* tyres.py lines 77-79; max(0, nan) is 0
tab_tyre_from(brake_usage, lap) ==
  IF brake_usage = <<>> THEN <<0, 1>>
  ELSE hundred_less(FracMul(Frac(3 * lap, 10),
                            FracAdd(<<1, 1>>, FracMul(brake_usage[1], <<1, 200>>))))

\* the default of fuel.py lines 69, 71 and tyres.py lines 72, 74
DEFAULT_USAGE == 50

\* fuel.py lines 64-71 and tyres.py lines 67-74: the usage of a lap
usage_of_lap(m, metric, lap) ==
  IF metric \in DOMAIN m
  THEN IF \E k \in DOMAIN m[metric] : k[2] = lap THEN lap_mean(m[metric], lap)
       ELSE Present(<<DEFAULT_USAGE, 1>>)
  ELSE Present(<<DEFAULT_USAGE, 1>>)

\* sorted(laps_filtered[LAP_COL].unique())
laps_of(lap_rows) == {lap_rows[i].lap[1] : i \in 1..Len(lap_rows)}

\* fuel.py lines 52-93: the chart drawn, or nothing ("No data for selected
\* filters")
fuel_chart(telemetry_df, lap_rows, vehicle, current_lap) ==
  LET lf == laps_filtered(lap_rows, vehicle, current_lap)
      m == process_telemetry(telemetry_df, vehicle, lap_range_to(current_lap)).metrics
  IN IF ~IsEmptyFrame(telemetry_df)
     THEN IF lf # <<>>
          THEN Present([lap \in laps_of(lf) |->
                          tab_fuel_from(usage_of_lap(m, "fuel_usage", lap), lap)])
          ELSE <<>>
     ELSE Present([lap \in laps_of(lf) |-> hundred_less(<<lap, 2>>)])

\* tyres.py lines 54-96
tyres_chart(telemetry_df, lap_rows, vehicle, current_lap) ==
  LET lf == laps_filtered(lap_rows, vehicle, current_lap)
      m == process_telemetry(telemetry_df, vehicle, lap_range_to(current_lap)).metrics
  IN IF ~IsEmptyFrame(telemetry_df)
     THEN IF lf # <<>>
          THEN Present([lap \in laps_of(lf) |->
                          tab_tyre_from(usage_of_lap(m, "brake_usage", lap), lap)])
          ELSE <<>>
     ELSE Present([lap \in laps_of(lf) |-> hundred_less(Frac(3 * lap, 10))])

\* the session as initialize_session_state leaves it, nothing rendered
UiIdle ==
  /\ selected_race = "Race 1"
  /\ selected_vehicle = <<>>
  /\ current_lap_filter = DEFAULT_START_LAP
  /\ lap_live = FALSE
  /\ last_lap_update = <<0>>
  /\ now = 0
  /\ run_pc = "initial"
  /\ race_laps = [r \in Races |-> 0]
  /\ kpi_out = <<>>
  /\ fuel_out = <<>>
  /\ tyres_out = <<>>

\* calculate_kpis on the lap table and the telemetry table of the race; the
\* estimates are computed when a lap passes the filters
RenderKpis ==
  /\ kpi_out = <<>>
  /\ ~laps.raised
  /\ laps_filtered(laps.rows, selected_vehicle, current_lap_filter) # <<>>
  /\ kpi_out' = Present(kpi_estimates(tel_long, selected_vehicle,
                          IF current_lap_filter >= 1 THEN current_lap_filter ELSE 1))
  /\ UNCHANGED <<sessionVars, fuel_out, tyres_out>>
  /\ UNCHANGED notUi

\* render_fuel_tab, when there is lap data
RenderFuelTab ==
  /\ fuel_out = <<>>
  /\ ~laps.raised
  /\ laps.rows # <<>>
  /\ fuel_chart(tel_long, laps.rows, selected_vehicle, current_lap_filter) # <<>>
  /\ fuel_out' = fuel_chart(tel_long, laps.rows, selected_vehicle, current_lap_filter)
  /\ UNCHANGED <<sessionVars, kpi_out, tyres_out>>
  /\ UNCHANGED notUi

\* render_tyres_tab, when there is lap data
RenderTyresTab ==
  /\ tyres_out = <<>>
  /\ ~laps.raised
  /\ laps.rows # <<>>
  /\ tyres_chart(tel_long, laps.rows, selected_vehicle, current_lap_filter) # <<>>
  /\ tyres_out' = tyres_chart(tel_long, laps.rows, selected_vehicle, current_lap_filter)
  /\ UNCHANGED <<sessionVars, kpi_out, fuel_out>>
  /\ UNCHANGED notUi

-----------------------------------------------------------------------------
(* sidebar.py and live_mode.py: one script run is render_sidebar, the views  *)
(* and handle_live_mode.  The session state is a record; a key that is not   *)
(* in st.session_state is absent.                                            *)

Session ==
  [selected_race |-> selected_race, selected_vehicle |-> selected_vehicle,
   current_lap_filter |-> current_lap_filter, last_lap_update |-> last_lap_update,
   lap_live |-> lap_live]

\* lines 15-26: the keys that are missing get their defaults (the other four
\* keys are never deleted)
initialize_session_state(ss, t) ==
  [ss EXCEPT !.last_lap_update = IF @ = <<>> THEN <<t>> ELSE @]

\* sorted(laps[ID_COL].unique().tolist()) of a race with lap data
Vehicles == {"7", "12"}

\* st.slider(min, max, value): the bounds as the widget has them; a value
\* outside them widens them
slider_bounds(lo, hi, value) ==
  [lo |-> IF value < lo THEN value ELSE lo, hi |-> IF value > hi THEN value ELSE hi]

\* what st.slider returns: the user's move, or the value it was given
slider(value, move) == IF move # <<>> THEN move[1] ELSE value

\* lines 103-113: live mode just switched on starts at lap 1; switched off,
\* the time of the last update is deleted
after_toggle(ss, t, lap_live_now) ==
  IF lap_live_now
  THEN IF ~ss.lap_live \/ ss.last_lap_update = <<>>
       THEN [ss EXCEPT !.lap_live = TRUE, !.last_lap_update = <<t>>,
                       !.current_lap_filter = 1]
       ELSE [ss EXCEPT !.lap_live = TRUE]
  ELSE [ss EXCEPT !.lap_live = FALSE, !.last_lap_update = <<>>]

\* lines 36-135 up to the slider: the race, the vehicle and the toggle
sidebar_to_slider(ss, t, max_lap, race, vehicle, toggle) ==
  LET s0 == [initialize_session_state(ss, t) EXCEPT !.selected_race = race]
  IN IF max_lap > 0
     THEN after_toggle([s0 EXCEPT !.selected_vehicle = vehicle], t, toggle)
     ELSE s0

\* lines 36-135: the session state after render_sidebar, for the race, the
\* vehicle, the toggle position and the slider move of the user
render_sidebar(ss, t, max_lap, race, vehicle, toggle, move) ==
  LET s1 == sidebar_to_slider(ss, t, max_lap, race, vehicle, toggle)
      value == IF s1.current_lap_filter # 0 THEN s1.current_lap_filter ELSE 1
  IN IF max_lap > 0
     THEN IF ~s1.lap_live THEN [s1 EXCEPT !.current_lap_filter = slider(value, move)]
          ELSE s1
     ELSE [s1 EXCEPT !.selected_vehicle = <<>>, !.current_lap_filter = 1]

\* live_mode.py line 44: the greatest lap taken for a race without lap data
NO_DATA_MAX_LAP == 28

\* the update is made only after more than the interval
handle_live_mode_late(ss, t, max_lap) ==
  IF ss.lap_live
  THEN LET s0 == IF ss.last_lap_update = <<>>
                 THEN [ss EXCEPT !.last_lap_update = <<t>>, !.current_lap_filter = 1]
                 ELSE ss
           max_lap_live == IF max_lap > 0 THEN max_lap ELSE NO_DATA_MAX_LAP
       IN IF t - s0.last_lap_update[1] > LIVE_MODE_UPDATE_INTERVAL
          THEN [s0 EXCEPT !.current_lap_filter = IF @ < max_lap_live THEN @ + 1
                                                 ELSE max_lap_live,
                          !.last_lap_update = <<t>>]
          ELSE s0
  ELSE ss

\* live_mode.py lines 14-67: the session state after handle_live_mode
handle_live_mode(ss, t, max_lap) ==
  IF ss.lap_live
  THEN LET s0 == IF ss.last_lap_update = <<>>
                 THEN [ss EXCEPT !.last_lap_update = <<t>>, !.current_lap_filter = 1]
                 ELSE ss
           max_lap_live == IF max_lap > 0 THEN max_lap ELSE NO_DATA_MAX_LAP
       IN IF t - s0.last_lap_update[1] >= LIVE_MODE_UPDATE_INTERVAL
          THEN [s0 EXCEPT !.current_lap_filter = IF @ < max_lap_live THEN @ + 1
                                                 ELSE max_lap_live,
                          !.last_lap_update = <<t>>]
          ELSE s0
  ELSE ss

\* the session state becomes ss
SessionBecomes(ss) ==
  /\ selected_race' = ss.selected_race
  /\ selected_vehicle' = ss.selected_vehicle
  /\ current_lap_filter' = ss.current_lap_filter
  /\ last_lap_update' = ss.last_lap_update
  /\ lap_live' = ss.lap_live

\* a script run starts (a widget was touched, or st.rerun was called) and
\* render_sidebar runs through; widgets that are not drawn cannot be touched
SidebarRun(race, vehicle, toggle, move) ==
  LET max_lap == race_laps[race]
      s1 == sidebar_to_slider(Session, now, max_lap, race, vehicle, toggle)
      b == slider_bounds(1, max_lap, IF s1.current_lap_filter # 0
                                     THEN s1.current_lap_filter ELSE 1)
  IN /\ max_lap = 0 => vehicle = selected_vehicle /\ toggle = lap_live /\ move = <<>>
     /\ max_lap > 0 /\ vehicle # <<>> => vehicle[1] \in Vehicles
     /\ move # <<>> => ~toggle /\ move[1] >= b.lo /\ move[1] <= b.hi
     /\ SessionBecomes(render_sidebar(Session, now, max_lap, race, vehicle, toggle, move))
     /\ run_pc' = "sidebar"
     /\ UNCHANGED <<now, race_laps, kpi_out, fuel_out, tyres_out>>
     /\ UNCHANGED notUi

\* st.slider rejects a value outside its bounds: the run ends at line 115
\* with what render_sidebar had assigned before
SidebarRunSliderRaises(race, vehicle, toggle) ==
  LET max_lap == race_laps[race]
      s1 == sidebar_to_slider(Session, now, max_lap, race, vehicle, toggle)
  IN /\ max_lap > 0
     /\ vehicle # <<>> => vehicle[1] \in Vehicles
     /\ s1.current_lap_filter > max_lap
     /\ SessionBecomes(s1)
     /\ run_pc' = "stopped"
     /\ UNCHANGED <<now, race_laps, kpi_out, fuel_out, tyres_out>>
     /\ UNCHANGED notUi

\* the run reaches handle_live_mode (main.py line 127)
HandleLiveMode ==
  /\ run_pc = "sidebar"
  /\ SessionBecomes(handle_live_mode(Session, now, race_laps[selected_race]))
  /\ run_pc' = "live"
  /\ UNCHANGED <<now, race_laps, kpi_out, fuel_out, tyres_out>>
  /\ UNCHANGED notUi

-----------------------------------------------------------------------------
(* The timing sheets given to build_laps, and the call *)

MaxRows == 4

V7 == NumCell(70)
V7t == TextCell("7")
V12 == TextCell("12")
L0 == NumCell(0)
L1 == NumCell(10)
L2 == NumCell(20)
L3 == NumCell(30)
L2t == TextCell("2")
Lx == TextCell("x")
L15 == NumCell(15)

TimingRow(v, l, t) == [vehicle_id |-> v, lap |-> l, timestamp |-> TextCell(t)]

\* The rows a sheet is filled from.  A sheet is filled in the order of this
\* list (sheets are taken up to the order of their rows); the list is not in
\* (lap, timestamp) order, so the sheets come sorted and unsorted.
RowDomain ==
  << TimingRow(V7, Lx, "T+90"), TimingRow(V12, L3, "T+181"),
     TimingRow(V7, L15, "T+0"), TimingRow(V7t, L2t, "T+181"),
     TimingRow(V7, L2, "T+90"), TimingRow(V12, L2, "T+90"),
     TimingRow(V7, L1, "T+90"), TimingRow(V7, L2, "garbage"),
     TimingRow(V7, L1, "garbage"), TimingRow(V7, L2, "T+0"),
     TimingRow(V12, L1, "T+0"), TimingRow(V7, L1, "T+0"),
     TimingRow(V7, L0, "T+90") >>

RowIndex(r) == CHOOSE i \in 1..Len(RowDomain) : RowDomain[i] = r
MayFollow(rows, i) == IF rows = <<>> THEN TRUE ELSE RowIndex(rows[Len(rows)]) <= i

TimingCols == {"vehicle_id", "lap", "timestamp"}
NoLaps == [raised |-> FALSE, rows |-> <<>>]

\* no sheet read, build_laps not called
InitLaps_ ==
  /\ end_df = [present |-> TRUE, cols |-> TimingCols, rows |-> <<>>]
  /\ time_df = [present |-> TRUE, cols |-> TimingCols, rows |-> <<>>]
  /\ laps_pc = "input"
  /\ end_laps = NoLaps
  /\ time_laps = NoLaps
  /\ laps = NoLaps

InitLaps == InitLaps_ /\ UiIdle /\ AggIdle /\ LoadIdle /\ ExtractIdle /\ StatsIdle /\ MainIdle

\* one more row in the lap-end sheet
AppendEndRow ==
  /\ laps_pc = "input"
  /\ Len(end_df.rows) + Len(time_df.rows) < MaxRows
  /\ \E i \in 1..Len(RowDomain) :
       /\ MayFollow(end_df.rows, i)
       /\ end_df' = [end_df EXCEPT !.rows = Append(@, RowDomain[i])]
  /\ UNCHANGED <<time_df, laps_pc, end_laps, time_laps, laps, notLap>>

\* one more row in the lap-time sheet
AppendTimeRow ==
  /\ laps_pc = "input"
  /\ Len(end_df.rows) + Len(time_df.rows) < MaxRows
  /\ \E i \in 1..Len(RowDomain) :
       /\ MayFollow(time_df.rows, i)
       /\ time_df' = [time_df EXCEPT !.rows = Append(@, RowDomain[i])]
  /\ UNCHANGED <<end_df, laps_pc, end_laps, time_laps, laps, notLap>>

\* build_laps(file, race) on the two sheets
BuildLaps ==
  /\ laps_pc = "input"
  /\ LET el == compute_lap_time_from_timestamps(end_df, ID_COL, LAP_COL, TIME_COLS_END)
         tl == compute_lap_time_from_timestamps(time_df, ID_COL, LAP_COL, TIME_COLS_TIME)
     IN /\ end_laps' = el
        /\ time_laps' = tl
        /\ laps' = build_laps(el, tl)
  /\ laps_pc' = "built"
  /\ UNCHANGED <<end_df, time_df, notLap>>

NextLaps == AppendEndRow \/ AppendTimeRow \/ BuildLaps

SpecLaps == InitLaps /\ [][NextLaps]_vars

-----------------------------------------------------------------------------
(* The aggregator's runs *)

MaxSamples == 4
MaxChunkSize == 3

Sample(v, l, c, x) ==
  [vehicle_id |-> v, lap |-> l, telemetry_name |-> c, telemetry_value |-> TextCell(x)]

SampleDomain ==
  {Sample(7, 3, "aps", "40"), Sample(7, 3, "aps", "60"), Sample(7, 3, "aps", "bad"),
   Sample(7, 3, "speed", "60"), Sample(7, 4, "aps", "40"), Sample(7, 4, "speed", "40")}

Streams == UNION {[1..n -> SampleDomain] : n \in 1..MaxSamples}

\* the artifact of an earlier run
OldArtifact ==
  {[vehicle_id |-> 7, lap |-> 1, telemetry_name |-> "aps", value |-> <<10, 1>>]}

InitAgg ==
  /\ InitLaps_
  /\ MainIdle
  /\ LoadIdle
  /\ UiIdle
  /\ ExtractIdle
  /\ StatsIdle
  /\ raw_csv \in {[exists |-> FALSE, rows |-> <<>>]}
                   \cup {[exists |-> TRUE, rows |-> st] : st \in Streams}
  /\ chunk_size \in 1..MaxChunkSize
  /\ agg_pc = "start"
  /\ chunk_num = 0
  /\ aggregated_chunks = <<>>
  /\ pivot_df = {}
  /\ parquet_file \in {NoFile, CompleteFile(OldArtifact)}

\* the app reads the finished artifact (load_telemetry, line 49) and hands
\* it to process_telemetry without filters
ExtractFromArtifact ==
  /\ agg_pc = "returned"
  /\ parquet_file.state = "complete"
  /\ wide_out = <<>>
  /\ LET r == process_telemetry(read_parquet(parquet_file).df, <<>>, <<>>)
     IN /\ tel_wide' = r.telemetry_df
        /\ wide_out' = <<[metrics |-> r.metrics, pivot |-> r.pivot]>>
  /\ UNCHANGED <<tel_long, ex_vehicle, ex_range, long_out>>
  /\ UNCHANGED <<lapVars, aggVars, loadVars, statsVars, mainVars, uiVars>>

NextAgg ==
  \/ AggStart
  \/ ReadChunk
  \/ CombineChunks
  \/ WriteBegin
  \/ WriteEnd
  \/ AggFails
  \/ AggInterrupted
  \/ ExtractFromArtifact

SpecAgg == InitAgg /\ [][NextAgg]_vars

-----------------------------------------------------------------------------
(* The loader's files and runs *)

CsvSample(v, l, c, x, t) ==
  [vehicle_id |-> v, lap |-> l, telemetry_name |-> c, telemetry_value |-> TextCell(x),
   timestamp |-> TextCell(t)]

\* what each race's raw CSV holds when it is there
CsvRows ==
  [p \in Paths |->
     IF p = "R1"
     THEN <<CsvSample(7, 3, "aps", "40", "T+0"), CsvSample(7, 3, "aps", "bad", "garbage")>>
     ELSE <<CsvSample(12, 1, "speed", "60", "T+90")>>]

\* what each race's artifact holds when it is complete: the aggregate of the CSV
ArtifactTable == [p \in Paths |-> combine_chunks(<<aggregate_chunk(CsvRows[p])>>)]

AggFileStates == [p \in Paths |-> {NoFile, CompleteFile(ArtifactTable[p]), PartialFile}]
CsvFileStates ==
  [p \in Paths |->
     {NoCsv, [state |-> "ok", rows |-> CsvRows[p]], [state |-> "unreadable", rows |-> <<>>]}]

\* an artifact is written, removed or left half written from outside the app
AggFileChanges(p, f) ==
  /\ f \in AggFileStates[p]
  /\ f # agg_files[p]
  /\ agg_files' = [agg_files EXCEPT ![p] = f]
  /\ UNCHANGED <<use_aggregated, csv_files, cache, compute_lock, sess, cache_writes>>
  /\ UNCHANGED notLoad

\* a raw CSV is put in place, removed or damaged from outside the app
CsvFileChanges(p, f) ==
  /\ f \in CsvFileStates[p]
  /\ f # csv_files[p]
  /\ csv_files' = [csv_files EXCEPT ![p] = f]
  /\ UNCHANGED <<use_aggregated, agg_files, cache, compute_lock, sess, cache_writes>>
  /\ UNCHANGED notLoad

InitLoad ==
  /\ InitLaps_
  /\ UiIdle
  /\ MainIdle
  /\ AggIdle
  /\ ExtractIdle
  /\ StatsIdle
  /\ use_aggregated \in BOOLEAN
  /\ agg_files \in [Paths -> UNION {AggFileStates[p] : p \in Paths}]
  /\ \A p \in Paths : agg_files[p] \in AggFileStates[p]
  /\ csv_files \in [Paths -> UNION {CsvFileStates[p] : p \in Paths}]
  /\ \A p \in Paths : csv_files[p] \in CsvFileStates[p]
  /\ cache = [r \in Races |-> <<>>]
  /\ compute_lock = [r \in Races |-> "free"]
  /\ sess = [s \in Sessions |-> IdleCall]
  /\ cache_writes = [r \in Races |-> 0]

NextLoad ==
  \/ \E s \in Sessions, race \in Races : Call(s, race)
  \/ \E s \in Sessions : Lookup(s)
  \/ \E s \in Sessions : AcquireLock(s)
  \/ \E s \in Sessions : Compute(s)
  \/ \E s \in Sessions : Store(s)
  \/ \E p \in Paths : \E f \in AggFileStates[p] : AggFileChanges(p, f)
  \/ \E p \in Paths : \E f \in CsvFileStates[p] : CsvFileChanges(p, f)

SpecLoad == InitLoad /\ [][NextLoad]_vars

-----------------------------------------------------------------------------
(* The tables and arguments given to process_telemetry *)

MaxTelRows == 3

TelRow(v, l, c, x) ==
  [vehicle_id |-> v, lap |-> l, telemetry_name |-> c, telemetry_value |-> x]

F40 == Present(<<40, 1>>)
F60 == Present(<<60, 1>>)

TelDomain ==
  << TelRow(V7t, 3, "aps", F40), TelRow(V7t, 3, "aps", F60),
     TelRow(V7t, 4, "speed", F60), TelRow(V12, 3, "speed", F40),
     TelRow(V7t, 3, "pbrake_r", F40), TelRow(V7t, 3, "PBRAKE_F", F60),
     TelRow(V7t, 4, "aps", Absent), TelRow(V7, 3, "aps", F40),
     TelRow(V7, 4, "nmot", F60) >>

\* the tables: up to MaxTelRows rows, the vehicle_id column all text or all
\* numbers (row order does not matter to process_telemetry)
TelTables ==
  LET picks == UNION {[1..n -> 1..Len(TelDomain)] : n \in 0..MaxTelRows}
      ordered(f) == \A i \in 1..(Len(f) - 1) : f[i] <= f[i + 1]
      onekind(f) == \A i, j \in 1..Len(f) :
                       TelDomain[f[i]].vehicle_id.kind = TelDomain[f[j]].vehicle_id.kind
  IN {[i \in 1..Len(f) |-> TelDomain[f[i]]] : f \in {g \in picks : ordered(g) /\ onekind(g)}}

VehicleArgs == {<<>>, <<"7">>, <<"12">>}
LapRangeArgs == {<<>>, <<<<3, 3>>>>, <<<<3, 4>>>>, <<<<4, 4>>>>, <<<<1, 0>>>>}

InitExtract ==
  /\ InitLaps_
  /\ MainIdle
  /\ AggIdle
  /\ LoadIdle
  /\ UiIdle
  /\ StatsIdle
  /\ \E rows \in TelTables :
       /\ tel_long = LongFrame(rows)
       /\ tel_wide = WideFrame(pivot_table(rows))
  /\ ex_vehicle \in VehicleArgs
  /\ ex_range \in LapRangeArgs
  /\ long_out = <<>>
  /\ wide_out = <<>>

NextExtract == ProcessLong \/ ProcessWide

SpecExtract == InitExtract /\ [][NextExtract]_vars

-----------------------------------------------------------------------------
(* The lap-time columns given to rolling_consistency and best_lap *)

MaxSeriesLen == 9
MaxGapSeriesLen == 4

LapTimes == {Present(903), Present(921)}

\* the columns: without absent entries up to MaxSeriesLen entries, with
\* absent entries up to MaxGapSeriesLen
LapTimeColumns ==
  UNION {[1..n -> LapTimes] : n \in 0..MaxSeriesLen}
    \cup UNION {[1..n -> LapTimes \cup {Absent}] : n \in 0..MaxGapSeriesLen}

InitStats ==
  /\ InitLaps_
  /\ MainIdle
  /\ AggIdle
  /\ LoadIdle
  /\ UiIdle
  /\ ExtractIdle
  /\ lap_time_s \in LapTimeColumns
  /\ consistency_out = <<>>
  /\ best_out = <<>>

NextStats == CallRollingConsistency \/ CallBestLap

SpecStats == InitStats /\ [][NextStats]_vars

-----------------------------------------------------------------------------
(* The batch runs of main *)

\* what a race's input path may hold
MainInputs ==
  {NoInput,
   [exists |-> TRUE, rows |-> <<Sample(7, 3, "aps", "40")>>],
   [exists |-> TRUE, rows |-> <<Sample(7, 3, "aps", "40"), Sample(7, 3, "aps", "60"),
                                Sample(7, 4, "speed", "40")>>]}

InitMain ==
  /\ InitLaps_
  /\ LoadIdle
  /\ UiIdle
  /\ ExtractIdle
  /\ StatsIdle
  /\ raw_csv = NoInput
  /\ chunk_size \in 1..MaxChunkSize
  /\ agg_pc = "idle"
  /\ chunk_num = 0
  /\ aggregated_chunks = <<>>
  /\ pivot_df = {}
  /\ parquet_file = NoFile
  /\ main_pc = "check R1"
  /\ inputs \in [{"R1", "R2"} -> MainInputs]
  /\ outputs \in [{"R1", "R2"} -> {NoFile, CompleteFile(OldArtifact)}]
  /\ written = {}
  /\ printed = {}
  /\ exit_status = <<>>

NextMain ==
  \/ MainCheckInput
  \/ InputVanishes
  \/ AggStart
  \/ ReadChunk
  \/ CombineChunks
  \/ WriteBegin
  \/ WriteEnd
  \/ AggFails
  \/ MainAfterAggregate
  \/ MainExitsOnError
  \/ MainFinish

SpecMain == InitMain /\ [][NextMain]_vars

-----------------------------------------------------------------------------
(* Tables with and without the columns compute_lap_time_from_timestamps *)
(* looks for                                                             *)

MaxLogRows == 3

LogRow(v, l, t, m) ==
  [vehicle_id |-> v, lap |-> l, timestamp |-> TextCell(t), meta_time |-> TextCell(m)]

LogRowDomain ==
  {LogRow(V7, L1, "T+0", "T+0"), LogRow(V7, L2, "T+90", "T+181"),
   LogRow(V7, L2, "garbage", "T+90"), LogRow(V7, L3, "T+181", "garbage"),
   LogRow(V12, L1, "T+90", "T+0"), LogRow(V7, L15, "T+0", "T+90")}

\* the column sets: all columns, one candidate time column, none, and
\* without the id or the lap column
LogColumnSets ==
  {{"vehicle_id", "lap", "timestamp", "meta_time"},
   {"vehicle_id", "lap", "timestamp"},
   {"vehicle_id", "lap", "meta_time"},
   {"vehicle_id", "lap"},
   {"lap", "timestamp", "meta_time"},
   {"vehicle_id", "timestamp", "meta_time"}}

InitCols ==
  /\ AggIdle
  /\ LoadIdle
  /\ UiIdle
  /\ ExtractIdle
  /\ StatsIdle
  /\ MainIdle
  /\ end_df \in [present : BOOLEAN, cols : LogColumnSets,
                 rows : UNION {[1..n -> LogRowDomain] : n \in 0..MaxLogRows}]
  /\ ~end_df.present => end_df.rows = <<>>
  /\ time_df = end_df
  /\ laps_pc = "input"
  /\ end_laps = NoLaps
  /\ time_laps = NoLaps
  /\ laps = NoLaps

\* lines 139-144 of build_laps: the function on the same table, once with the
\* lap-end candidates and once with the lap-time candidates
ComputeLapTimes ==
  /\ laps_pc = "input"
  /\ end_laps' = compute_lap_time_from_timestamps(end_df, ID_COL, LAP_COL, TIME_COLS_END)
  /\ time_laps' = compute_lap_time_from_timestamps(time_df, ID_COL, LAP_COL, TIME_COLS_TIME)
  /\ laps_pc' = "computed"
  /\ UNCHANGED <<end_df, time_df, laps, notLap>>

NextCols == ComputeLapTimes

SpecCols == InitCols /\ [][NextCols]_vars

-----------------------------------------------------------------------------
(* The lap tables and telemetry tables shown by the views *)

MaxViewRows == 3
MaxViewLap == 3

ViewTelDomain ==
  << TelRow(V7t, 1, "aps", F40), TelRow(V7t, 1, "aps", F60),
     TelRow(V7t, 2, "aps", F60), TelRow(V7t, 1, "pbrake_r", F40),
     TelRow(V7t, 2, "speed", F60), TelRow(V7t, 2, "aps", Absent) >>

ViewTelTables ==
  LET picks == UNION {[1..n -> 1..Len(ViewTelDomain)] : n \in 0..MaxViewRows}
      ordered(f) == \A i \in 1..(Len(f) - 1) : f[i] <= f[i + 1]
  IN {[i \in 1..Len(f) |-> ViewTelDomain[f[i]]] : f \in {g \in picks : ordered(g)}}

LapRecord(v, l, t) == [vehicle_id |-> v, lap |-> Present(l), lap_time_s |-> t]

ViewLapTables ==
  {<<>>,
   <<LapRecord("7", 1, Absent), LapRecord("7", 2, Present(90))>>,
   <<LapRecord("12", 1, Absent), LapRecord("7", 1, Absent),
     LapRecord("7", 2, Present(90)), LapRecord("7", 3, Present(91))>>}

InitViews ==
  /\ AggIdle
  /\ LoadIdle
  /\ StatsIdle
  /\ MainIdle
  /\ end_df = [present |-> FALSE, cols |-> TimingCols, rows |-> <<>>]
  /\ time_df = end_df
  /\ laps_pc = "built"
  /\ end_laps = NoLaps
  /\ time_laps = NoLaps
  /\ \E t \in ViewLapTables : laps = [raised |-> FALSE, rows |-> t]
  /\ \E rows \in ViewTelTables : tel_long = LongFrame(rows)
  /\ tel_wide = EmptyFrame
  /\ ex_vehicle = <<>>
  /\ ex_range = <<>>
  /\ long_out = <<>>
  /\ wide_out = <<>>
  /\ selected_race = "Race 1"
  /\ selected_vehicle \in {<<>>, <<"7">>}
  /\ current_lap_filter \in 1..MaxViewLap
  /\ lap_live = FALSE
  /\ last_lap_update = <<>>
  /\ now = 0
  /\ run_pc = "sidebar"
  /\ race_laps = [r \in Races |-> 0]
  /\ kpi_out = <<>>
  /\ fuel_out = <<>>
  /\ tyres_out = <<>>

NextViews == RenderKpis \/ RenderFuelTab \/ RenderTyresTab

SpecViews == InitViews /\ [][NextViews]_vars

-----------------------------------------------------------------------------
(* Sessions of the app: the races' lap counts, the user and the clock *)

MaxTime == 15

\* the greatest lap of each race: more laps than the default start lap, fewer,
\* and a race without lap data
RaceLapCounts ==
  {"Race 1" :> 6 @@ "Race 2" :> 2,
   "Race 1" :> 3 @@ "Race 2" :> 6,
   "Race 1" :> 6 @@ "Race 2" :> 0}

\* the slider positions a user can choose
SliderMoves == {<<>>} \cup {<<l>> : l \in 1..6}

InitLive ==
  /\ InitLaps_
  /\ AggIdle
  /\ LoadIdle
  /\ ExtractIdle
  /\ StatsIdle
  /\ MainIdle
  /\ selected_race = "Race 1"
  /\ selected_vehicle = <<>>
  /\ current_lap_filter = DEFAULT_START_LAP
  /\ lap_live = FALSE
  /\ last_lap_update = <<>>
  /\ now = 0
  /\ run_pc = "initial"
  /\ race_laps \in RaceLapCounts
  /\ kpi_out = <<>>
  /\ fuel_out = <<>>
  /\ tyres_out = <<>>

\* a second passes
Tick ==
  /\ now < MaxTime
  /\ now' = now + 1
  /\ UNCHANGED <<selected_race, selected_vehicle, current_lap_filter, lap_live,
                 last_lap_update, run_pc, race_laps, kpi_out, fuel_out, tyres_out>>
  /\ UNCHANGED notUi

NextLive ==
  \/ \E race \in Races, vehicle \in {<<>>, <<"7">>}, toggle \in BOOLEAN :
       \E move \in SliderMoves : SidebarRun(race, vehicle, toggle, move)
  \/ \E race \in Races, vehicle \in {<<>>, <<"7">>}, toggle \in BOOLEAN :
       SidebarRunSliderRaises(race, vehicle, toggle)
  \/ HandleLiveMode
  \/ Tick

SpecLive == InitLive /\ [][NextLive]_vars

-----------------------------------------------------------------------------
(* What the claims about the lap table speak of, stated on the sheets *)

\* the rows of a sheet with id, lap and time converted (no order, no grouping)
Converted(df) == BaseRows(df.rows, ID_COL, LAP_COL, "timestamp")

\* a comes strictly before b in ascending (lap, timestamp) order, absent last
OrderedBefore(a, b) ==
  \/ a.lap # <<>> /\ (b.lap = <<>> \/ a.lap[1] < b.lap[1])
  \/ a.lap = b.lap /\ a.ts # <<>> /\ (b.ts = <<>> \/ a.ts[1] < b.ts[1])

\* row j of the sheet precedes row i among the rows of i's vehicle
Precedes(b, j, i) ==
  /\ j # i
  /\ b[j].vehicle_id = b[i].vehicle_id
  /\ OrderedBefore(b[j], b[i]) \/ (~OrderedBefore(b[i], b[j]) /\ j < i)

\* the place of row i among the rows of its vehicle
Place(b, i) == Cardinality({j \in 1..Len(b) : Precedes(b, j, i)}) + 1

\* the seconds from the row just before row i (same vehicle) to row i
SecondsToPreceding(b, i) ==
  IF Place(b, i) = 1 THEN <<>>
  ELSE LET j == CHOOSE j \in 1..Len(b) : Precedes(b, j, i) /\ Place(b, j) = Place(b, i) - 1
       IN IF b[i].ts # <<>> /\ b[j].ts # <<>> THEN <<b[i].ts[1] - b[j].ts[1]>> ELSE <<>>

\* row i is the last of the rows with its vehicle and lap
LastOfPair(b, i) ==
  \A j \in 1..Len(b) : (j # i /\ SameKey(b[j], b[i])) => Precedes(b, j, i)

\* table t holds no two records with the same vehicle and lap
OneRecordPerPair(t) ==
  \A i, j \in 1..Len(t) : SameKey(t[i], t[j]) => i = j

Built == laps_pc = "built"
Returned == laps_pc = "built" /\ ~laps.raised

-----------------------------------------------------------------------------
(* C1 *)

\* the pairs found in both sheets whose two derived durations differ
DifferingPairs ==
  LET e == Converted(end_df)
      t == Converted(time_df)
  IN {p \in (1..Len(e)) \X (1..Len(t)) :
        /\ LastOfPair(e, p[1]) /\ LastOfPair(t, p[2])
        /\ SameKey(e[p[1]], t[p[2]]) /\ t[p[2]].lap # <<>>
        /\ SecondsToPreceding(e, p[1]) # SecondsToPreceding(t, p[2])}

\* C1: for every (vehicle_id, lap) pair found in both the lap-end sheet and the
\* lap-time sheet with different durations, the table build_laps returns
\* holds the pair with the duration derived from the lap-time sheet.
C1_TimeLogDurationWins ==
  Returned =>
    \A p \in DifferingPairs :
      LET t == Converted(time_df) IN
      /\ \E k \in 1..Len(laps.rows) : SameKey(laps.rows[k], t[p[2]])
      /\ \A k \in 1..Len(laps.rows) :
           SameKey(laps.rows[k], t[p[2]]) =>
             laps.rows[k].lap_time_s = SecondsToPreceding(t, p[2])

\* a returned table for a pair whose two sheets give two different durations
C1_Witness ==
  /\ Returned
  /\ \E p \in DifferingPairs :
       /\ SecondsToPreceding(Converted(end_df), p[1]) # <<>>
       /\ SecondsToPreceding(Converted(time_df), p[2]) # <<>>

-----------------------------------------------------------------------------
(* C2 *)

\* C2: whatever the two sheets hold, repeated rows included, the table
\* build_laps returns holds at most one record per (vehicle_id, lap) pair.
C2_OneRecordPerPair == Returned => OneRecordPerPair(laps.rows)

\* a returned table for sheets that repeat a pair within a sheet and across
\* the sheets
C2_Witness ==
  /\ Returned
  /\ LET e == Converted(end_df)
         t == Converted(time_df)
     IN /\ \E i, j \in 1..Len(e) : i # j /\ SameKey(e[i], e[j]) /\ e[i].lap # <<>>
        /\ \E i \in 1..Len(e), j \in 1..Len(t) : SameKey(e[i], t[j]) /\ e[i].lap # <<>>
        /\ \E i, j \in 1..Len(t) : i # j /\ SameKey(t[i], t[j]) /\ t[i].lap # <<>>

-----------------------------------------------------------------------------
(* C3 *)

\* what compute_lap_time_from_timestamps holds before it drops repeated
\* pairs, for one vehicle
BeforeDedup(df, v) ==
  OfVehicle(groupby_apply(Converted(df), SortedIds), v)

\* every row of the sheet stands at its place in (lap, timestamp) order among
\* the rows of its vehicle, with the seconds to the row before it
RowsInOrderWithDeltas(df) ==
  LET b == Converted(df) IN
  \A i \in 1..Len(b) :
    LET g == BeforeDedup(df, b[i].vehicle_id) IN
    /\ Len(g) = Cardinality({j \in 1..Len(b) : b[j].vehicle_id = b[i].vehicle_id})
    /\ g[Place(b, i)].lap = b[i].lap
    /\ g[Place(b, i)].lap_time_s = SecondsToPreceding(b, i)

\* the returned table holds, for the last row of every pair, that row's delta
ReturnedDeltas(df, res) ==
  LET b == Converted(df) IN
  /\ \A i \in 1..Len(b) :
       LastOfPair(b, i) =>
         \E k \in 1..Len(res.rows) :
           /\ SameKey(res.rows[k], b[i])
           /\ res.rows[k].lap_time_s = SecondsToPreceding(b, i)
  /\ \A k \in 1..Len(res.rows) :
       \E i \in 1..Len(b) :
         /\ LastOfPair(b, i)
         /\ SameKey(res.rows[k], b[i])
         /\ res.rows[k].lap_time_s = SecondsToPreceding(b, i)

\* the scenario: vehicle "12", laps 1, 2, 3 at T, T+90s, T+181s, no time-log
ScenarioRows ==
  {TimingRow(V12, L1, "T+0"), TimingRow(V12, L2, "T+90"), TimingRow(V12, L3, "T+181")}
IsScenario ==
  /\ Len(end_df.rows) = 3
  /\ {end_df.rows[i] : i \in 1..3} = ScenarioRows
  /\ time_df.rows = <<>>
ScenarioLaps ==
  << [vehicle_id |-> "12", lap |-> <<1>>, lap_time_s |-> <<>>],
     [vehicle_id |-> "12", lap |-> <<2>>, lap_time_s |-> <<90>>],
     [vehicle_id |-> "12", lap |-> <<3>>, lap_time_s |-> <<91>>] >>

\* C3: compute_lap_time_from_timestamps groups the rows by vehicle and orders
\* each group by (lap, timestamp) ascending; a row's lap_time_s is the seconds
\* from the row just before it in that order, and the first row of a vehicle
\* has none (absent, not zero).  Laps 1, 2, 3 at T, T+90s, T+181s with an
\* empty time-log give [absent, 90, 91] from build_laps.
C3_DeltaToPrecedingRow ==
  Built =>
    /\ ~end_laps.raised => RowsInOrderWithDeltas(end_df) /\ ReturnedDeltas(end_df, end_laps)
    /\ ~time_laps.raised => RowsInOrderWithDeltas(time_df) /\ ReturnedDeltas(time_df, time_laps)
    /\ IsScenario => laps = [raised |-> FALSE, rows |-> ScenarioLaps]

\* build_laps has run on the scenario
C3_Witness == Built /\ IsScenario /\ laps.rows # <<>>

-----------------------------------------------------------------------------
(* C4 *)

SheetRows == {end_df.rows[i] : i \in 1..Len(end_df.rows)}
               \cup {time_df.rows[i] : i \in 1..Len(time_df.rows)}

-----------------------------------------------------------------------------
(* C5 *)

\* C5 as claimed: build_laps is an outer join: every (vehicle_id, lap) pair
\* with a parseable lap found in the lap-end sheet or in the lap-time sheet is
\* found in what build_laps gives.  (It gives nothing when it raises, C6.)
C5_OuterJoinKeepsEveryPair ==
  Built =>
    \A r \in SheetRows :
      (to_numeric(r.lap) # <<>> /\ to_numeric(r.lap)[1] % 10 = 0) =>
        \E k \in 1..Len(laps.rows) :
          /\ laps.rows[k].vehicle_id = astype_str(r.vehicle_id)
          /\ laps.rows[k].lap = <<to_numeric(r.lap)[1] \div 10>>

-----------------------------------------------------------------------------
(* C6 *)

\* C6 as claimed: no query-time operation raises to its caller; for any input
\* table, non-integer lap values included, build_laps ends in a returned
\* table.
C6_BuildLapsNeverRaises == Built => ~laps.raised

-----------------------------------------------------------------------------
(* The aggregator's artifact *)

\* the positions of the stream's samples of one (vehicle_id, lap, telemetry_name)
\* whose telemetry_value is a number
NumericSamplesOf(rows, k) ==
  {i \in 1..Len(rows) : Triple(rows[i]) = k /\ rows[i].telemetry_value.text \in DOMAIN NumericText}

RECURSIVE TenthsTotal(_, _)
TenthsTotal(rows, I) ==
  IF I = {} THEN 0
  ELSE LET i == CHOOSE i \in I : TRUE
       IN NumericText[rows[i].telemetry_value.text] + TenthsTotal(rows, I \ {i})

\* the mean of telemetry_value over all samples of the stream for the triple
MeanOverAllSamples(rows, k) ==
  LET I == NumericSamplesOf(rows, k) IN Frac(TenthsTotal(rows, I), 10 * Cardinality(I))

\* the run went through and wrote its artifact
Aggregated == agg_pc = "returned" /\ raw_csv.exists

\* C7: whatever the stream and the chunk size, each cell the aggregator has
\* stored at row (vehicle_id, lap) and column c holds the mean of
\* telemetry_value over all samples of the stream with that vehicle_id, lap
\* and telemetry_name c.
C7_StoredValueIsMeanOfAllSamples ==
  Aggregated =>
    \A cell \in parquet_file.table :
      cell.value = MeanOverAllSamples(raw_csv.rows, Triple(cell))

\* C8: at every point of a run, failed and interrupted runs included, the
\* output path holds no artifact, the previous complete artifact or the new
\* complete artifact, never a partly written file.
C8_NoPartialArtifactVisible ==
  \/ parquet_file = NoFile
  \/ parquet_file = CompleteFile(OldArtifact)
  \/ parquet_file = CompleteFile(pivot_df)

-----------------------------------------------------------------------------
(* The loader and its cache *)

\* a readable raw CSV as a table: a telemetry_value that is no number and a
\* timestamp that is no time are null, all else is as in the file
CsvAsReturned(file) ==
  LongFrame(
    [i \in 1..Len(file.rows) |->
       [file.rows[i] EXCEPT
          !.telemetry_value =
             IF @.text \in DOMAIN NumericText
             THEN Present(Frac(NumericText[@.text], 10)) ELSE Absent,
          !.timestamp =
             IF @.text \in DOMAIN TimeText THEN Present(TimeText[@.text]) ELSE Absent]])

\* the table the preference order asks for, given the flag and the two files
Preferred(flag, agg, csv) ==
  IF flag /\ agg.state = "complete" THEN WideFrame(agg.table)
  ELSE IF csv.state = "ok" THEN CsvAsReturned(csv)
  ELSE EmptyFrame

\* C9: load_telemetry(race) never raises, and what it computes is the race's
\* artifact when the flag is on and the artifact is there and readable;
\* otherwise the race's raw CSV with timestamp and telemetry_value coerced
\* (failures null) when that file is there and readable; otherwise an empty
\* table.
C9_PreferenceOrder ==
  \A s \in Sessions :
    /\ sess[s].pc # "raised"
    /\ sess[s].pc = "store" =>
         sess[s].df = Preferred(use_aggregated, sess[s].seen_agg, sess[s].seen_csv)

\* the flag is on, the artifact is there but does not read, and the raw CSV
\* is returned with a value and a timestamp turned null
C9_Witness ==
  \E s \in Sessions :
    /\ sess[s].pc = "store"
    /\ use_aggregated
    /\ sess[s].seen_agg.state = "partial"
    /\ sess[s].seen_csv.state = "ok"
    /\ sess[s].df.kind = "long"
    /\ \E i \in 1..Len(sess[s].df.rows) :
         /\ sess[s].df.rows[i].telemetry_value = Absent
         /\ sess[s].df.rows[i].timestamp = Absent

\* the tables one whole run of load_telemetry can give for a race
WholeResults(race) ==
  {WideFrame(ArtifactTable[PathsOf(race)]),
   CsvAsReturned([state |-> "ok", rows |-> CsvRows[PathsOf(race)]]),
   EmptyFrame}

\* C10: under every interleaving of the sessions' calls, a race's cache entry
\* is written at most once, is the result of one whole computation, and once
\* there never changes.
C10_EntryPopulatedOnce ==
  /\ [](\A r \in Races :
          /\ cache_writes[r] <= 1
          /\ cache[r] # <<>> => cache_writes[r] = 1 /\ cache[r][1] \in WholeResults(r))
  /\ [][\A r \in Races : cache[r] # <<>> => cache'[r] = cache[r]]_vars

\* two first loads of a race have raced: one has populated the entry, the
\* other missed before that and waits for the lock, and the files have changed
\* so that computing again would give another table
C10_Witness ==
  \E r \in Races, s \in Sessions :
    /\ cache[r] # <<>>
    /\ sess[s].pc = "wait"
    /\ sess[s].race = r
    /\ load_telemetry(use_aggregated, agg_files[PathsOf(r)], csv_files[PathsOf(r)]).df
         # cache[r][1]

-----------------------------------------------------------------------------
(* process_telemetry on the two formats *)

BothProcessed == long_out # <<>> /\ wide_out # <<>>

\* C11: for any long table, vehicle filter and lap range, process_telemetry
\* returns the same metrics map (names, keys, values) for the long table as for
\* the wide table made by pivoting all of it with mean aggregation.
C11_FormatsInterchangeable ==
  BothProcessed => long_out[1].metrics = wide_out[1].metrics

-----------------------------------------------------------------------------
(* The metrics map against the wide table returned with it *)

\* every output returned so far
Outputs ==
  {long_out[i] : i \in 1..Len(long_out)} \cup {wide_out[i] : i \in 1..Len(wide_out)}

SourceOf ==
  [speed |-> "speed", fuel_usage |-> "aps", acceleration |-> "accx_can",
   gear |-> "gear", rpm |-> "nmot"]

\* the value of the wide row of key k in column col; absent when not filled
WideValue(pv, k, col) ==
  IF \E c \in pv.table : <<c.vehicle_id, c.lap>> = k /\ c.telemetry_name = col
  THEN Present((CHOOSE c \in pv.table :
                  <<c.vehicle_id, c.lap>> = k /\ c.telemetry_name = col).value)
  ELSE Absent

\* the metrics map of an output is the one the wide table of the output asks
\* for, brake_usage being taken from the first column, in column order, that
\* is in brakeNames
MetricsFollowTable(o, brakeNames) ==
  LET names == {o.pivot.cols[i] : i \in 1..Len(o.pivot.cols)}
      keys == {<<c.vehicle_id, c.lap>> : c \in o.pivot.table}
      brakes == {i \in 1..Len(o.pivot.cols) : o.pivot.cols[i] \in brakeNames}
      first == o.pivot.cols[CHOOSE i \in brakes : \A j \in brakes : i <= j]
      src(m) == IF m = "brake_usage" THEN first ELSE SourceOf[m]
  IN /\ DOMAIN o.metrics =
          {m \in DOMAIN SourceOf : SourceOf[m] \in names}
            \cup (IF brakes # {} THEN {"brake_usage"} ELSE {})
     /\ \A m \in DOMAIN o.metrics :
          /\ DOMAIN o.metrics[m] = keys
          /\ \A k \in keys : o.metrics[m][k] = WideValue(o.pivot, k, src(m))

\* the names that contain 'pbrake' as written, and in any case of letters
NamesWithPbrake == {"pbrake_f", "pbrake_r"}
NamesWithPbrakeAnyCase == {"pbrake_f", "pbrake_r", "PBRAKE_F"}

\* C12 as stated: a metric is in the map exactly when its source column is in
\* the wide table (brake_usage: the first column whose name contains
\* 'pbrake'), and its value at each key is that column's value in the wide row.
C12_MetricsFollowColumns ==
  \A o \in Outputs : MetricsFollowTable(o, NamesWithPbrake)

\* C12, amended: the same with brake_usage taken from the first column whose
\* name contains 'pbrake' when lower-cased.
C12_MetricsFollowColumnsAnyCase ==
  \A o \in Outputs : MetricsFollowTable(o, NamesWithPbrakeAnyCase)

\* aps samples 40 and 60 of ("7", 3) give fuel_usage 50 at ("7", 3), and a
\* capital-letter brake column is the one brake_usage is taken from
C12_Witness ==
  /\ long_out # <<>>
  /\ \E i, j \in 1..Len(tel_long.rows) :
       /\ i # j
       /\ tel_long.rows[i] = TelRow(V7t, 3, "aps", F40)
       /\ tel_long.rows[j] = TelRow(V7t, 3, "aps", F60)
  /\ "fuel_usage" \in DOMAIN long_out[1].metrics
  /\ long_out[1].metrics["fuel_usage"][<<V7t, 3>>] = Present(<<50, 1>>)
  /\ "PBRAKE_F" \in {long_out[1].pivot.cols[i] : i \in 1..Len(long_out[1].pivot.cols)}
  /\ "brake_usage" \in DOMAIN long_out[1].metrics

-----------------------------------------------------------------------------
(* Aggregating and then extracting *)

\* the stream has exactly one sample per (vehicle_id, lap, telemetry_name)
OneSamplePerTriple(rows) ==
  \A i, j \in 1..Len(rows) : Triple(rows[i]) = Triple(rows[j]) => i = j

\* the metric fed by a channel
MetricOfChannel ==
  [speed |-> "speed", aps |-> "fuel_usage", accx_can |-> "acceleration",
   gear |-> "gear", nmot |-> "rpm"]

\* the aggregator ran over a one-sample-per-triple stream and its artifact
\* went through process_telemetry
RoundTripDone ==
  /\ Aggregated
  /\ OneSamplePerTriple(raw_csv.rows)
  /\ wide_out # <<>>

\* C13: with exactly one sample per (vehicle_id, lap, telemetry_name),
\* whatever the chunk size, the metric of each sample's channel has, at the
\* sample's (vehicle_id, lap), exactly the sample's value; a sample whose value
\* is no number leaves no value there.
C13_RoundTrip ==
  RoundTripDone =>
    \A i \in 1..Len(raw_csv.rows) :
      LET r == raw_csv.rows[i]
          m == MetricOfChannel[r.telemetry_name]
          k == <<r.vehicle_id, r.lap>>
          ms == wide_out[1].metrics
      IN IF r.telemetry_value.text \in DOMAIN NumericText
         THEN /\ m \in DOMAIN ms
              /\ k \in DOMAIN ms[m]
              /\ ms[m][k] = Present(Frac(NumericText[r.telemetry_value.text], 10))
         ELSE (m \in DOMAIN ms /\ k \in DOMAIN ms[m]) => ms[m][k] = Absent

\* a round trip of three samples read in two chunks
C13_Witness ==
  /\ RoundTripDone
  /\ Len(raw_csv.rows) = 3
  /\ chunk_size = 2
  /\ chunk_num = 2
  /\ DOMAIN wide_out[1].metrics = {"speed", "fuel_usage"}

-----------------------------------------------------------------------------
(* Empty results of process_telemetry *)

\* the row's vehicle and lap are the ones asked for
Selected(r) ==
  /\ ex_vehicle = <<>> \/ (r.vehicle_id.kind = "text" /\ r.vehicle_id.text = ex_vehicle[1])
  /\ ex_range = <<>> \/ (ex_range[1][1] <= r.lap /\ r.lap <= ex_range[1][2])

NothingSelectedLong == \A i \in 1..Len(tel_long.rows) : ~Selected(tel_long.rows[i])
NothingSelectedWide == \A c \in tel_wide.table : ~Selected(c)

EmptyOutput == [metrics |-> NoMetrics, pivot |-> EmptyPivot]

\* C14: when the table is empty or no row passes the vehicle and lap-range
\* filters (so for every range with max < min), process_telemetry returns an
\* empty metrics map and an empty table, in the long and in the wide format.
C14_EmptyWhenNothingSelected ==
  /\ NothingSelectedLong => \A i \in 1..Len(long_out) : long_out[i] = EmptyOutput
  /\ NothingSelectedWide => \A i \in 1..Len(wide_out) : wide_out[i] = EmptyOutput
  /\ (ex_range # <<>> /\ ex_range[1][2] < ex_range[1][1]) =>
       \A o \in Outputs : o = EmptyOutput

\* a table with rows, asked for the lap range (1, 0), in both formats
C14_Witness ==
  /\ ex_range = <<<<1, 0>>>>
  /\ tel_long.rows # <<>>
  /\ tel_wide.table # {}
  /\ long_out # <<>>
  /\ wide_out # <<>>
  /\ long_out[1] = EmptyOutput
  /\ wide_out[1] = EmptyOutput

-----------------------------------------------------------------------------
(* Repeated calls of process_telemetry *)

-----------------------------------------------------------------------------
(* rolling_consistency and best_lap *)

NoAbsentEntry(x) == \A i \in 1..Len(x) : x[i] # <<>>

\* C16: for a lap-time series without absent entries and the default window,
\* rolling_consistency is absent at the first 2 entries and has a
\* non-negative value at the 3rd entry and at every later one.
C16_ValueFromThirdEntry ==
  (consistency_out # <<>> /\ NoAbsentEntry(lap_time_s)) =>
    \A i \in 1..Len(lap_time_s) :
      IF i <= 2 THEN consistency_out[1][i] = Absent
      ELSE consistency_out[1][i] # Absent /\ consistency_out[1][i][1] >= 0

\* C17: best_lap returns the least of the lap_time_s values that are there,
\* and not-a-number when the table has no rows or no lap_time_s is there.
C17_BestLapIsMinimum ==
  best_out # <<>> =>
    LET there == {i \in 1..Len(lap_time_s) : lap_time_s[i] # <<>>}
    IN IF there = {} THEN best_out[1] = Absent
       ELSE /\ best_out[1] # Absent
            /\ \E i \in there : lap_time_s[i][1] = best_out[1][1]
            /\ \A i \in there : best_out[1][1] <= lap_time_s[i][1]

\* 92.1, an absent entry and 90.3 give 90.3
C17_Witness ==
  /\ lap_time_s = <<Present(921), Absent, Present(903)>>
  /\ best_out = <<Present(903)>>

-----------------------------------------------------------------------------
(* The exit of the batch aggregator *)

AllRaces == {"R1", "R2"}

\* C18: the run ends with exit status 0 and 'Preprocessing complete' only if
\* every race was aggregated and written; when a race was not (its input not
\* found, or a failure while reading, parsing or writing), the run ends with a
\* nonzero status and a printed cause.
C18_SuccessOnlyIfAllWritten ==
  main_pc = "exited" =>
    IF written = AllRaces
    THEN exit_status = <<0>> /\ "Preprocessing complete!" \in printed
    ELSE /\ exit_status # <<0>>
         /\ "Preprocessing complete!" \notin printed
         /\ printed # {}

-----------------------------------------------------------------------------
(* The time column compute_lap_time_from_timestamps reads *)

\* the table with the time column `col` alone, under the name it has
OnlyTimeColumn(df, col) ==
  [present |-> df.present,
   cols |-> {ID_COL, LAP_COL, col},
   rows |-> [i \in 1..Len(df.rows) |->
               [df.rows[i] EXCEPT !.timestamp = IF col = "timestamp" THEN @ ELSE TextCell("garbage"),
                                  !.meta_time = IF col = "meta_time" THEN @ ELSE TextCell("garbage")]]]

\* nothing to compute from: no table, no row, no id, no lap or no time column
NothingToCompute(df, candidates) ==
  \/ ~df.present
  \/ df.rows = <<>>
  \/ ID_COL \notin df.cols
  \/ LAP_COL \notin df.cols
  \/ \A i \in 1..Len(candidates) : candidates[i] \notin df.cols

\* the first name of the candidate list that is a column of the table
FirstCandidate(df, candidates) ==
  candidates[CHOOSE i \in 1..Len(candidates) :
               /\ candidates[i] \in df.cols
               /\ \A j \in 1..(i - 1) : candidates[j] \notin df.cols]

\* what the function gave is what it gives for the table with the first
\* candidate column alone; an empty table when there is nothing to compute from
UsesFirstCandidate(df, candidates, out) ==
  IF NothingToCompute(df, candidates) THEN out = EmptyLaps
  ELSE out = compute_lap_time_from_timestamps(
               OnlyTimeColumn(df, FirstCandidate(df, candidates)), ID_COL, LAP_COL,
               <<FirstCandidate(df, candidates)>>)

\* C19: compute_lap_time_from_timestamps reads one time column only, the
\* first of the candidate list that the table has ('timestamp' before
\* 'meta_time' for the end log), and returns the empty table, without failing,
\* when the table is absent or empty or lacks the id column, the lap column or
\* every candidate.
C19_FirstCandidateOnly ==
  laps_pc = "computed" =>
    /\ UsesFirstCandidate(end_df, TIME_COLS_END, end_laps)
    /\ UsesFirstCandidate(time_df, TIME_COLS_TIME, time_laps)

\* both candidates are columns, a row has a timestamp that does not parse and
\* a meta_time that does, and the durations come from timestamp alone: that
\* row has none, while meta_time alone would give it one
C19_Witness ==
  /\ laps_pc = "computed"
  /\ {"timestamp", "meta_time"} \subseteq end_df.cols
  /\ \E i \in 1..Len(end_df.rows) :
       end_df.rows[i] = LogRow(V7, L2, "garbage", "T+90")
  /\ ~end_laps.raised
  /\ \E i \in 1..Len(end_laps.rows) : end_laps.rows[i].lap_time_s = Absent /\ end_laps.rows[i].lap = Present(2)
  /\ end_laps # compute_lap_time_from_timestamps(OnlyTimeColumn(end_df, "meta_time"),
                                               ID_COL, LAP_COL, <<"meta_time">>)

-----------------------------------------------------------------------------
(* The lifetime of a cache entry *)

\* session s returns from its call in this step
ReturnsNow(s) ==
  /\ sess[s].pc \in {"lookup", "wait", "store"}
  /\ sess'[s].pc = "idle"
  /\ sess'[s].ret # <<>>

\* what the files of a race would give if they were read now
FromDiskNow(race) ==
  load_telemetry(use_aggregated, agg_files[PathsOf(race)], csv_files[PathsOf(race)])

\* C20: the loader cache lives as long as the process and is never
\* invalidated: every call that returns gives the entry of its race, and an
\* entry, once written, never changes, whatever happens to the files; so once
\* load_telemetry(race) returned R every later call returns R, the empty
\* table included.
C20_EntryNeverInvalidated ==
  [][/\ \A r \in Races : cache[r] # <<>> => cache'[r] = cache[r]
     /\ \A s \in Sessions : ReturnsNow(s) => sess'[s].ret = cache'[sess[s].race]]_vars

\* the empty table is the entry of Race 1, the only race asked for; both
\* sessions have returned it, one of them from the cache; the files of Race 1
\* would now give a table with rows
C20_Witness ==
  /\ cache["Race 1"] = Present(EmptyFrame)
  /\ cache["Race 2"] = <<>>
  /\ cache_writes["Race 1"] = 1
  /\ \A s \in Sessions : sess[s].pc = "idle" /\ sess[s].ret = Present(EmptyFrame)
  /\ ~FromDiskNow("Race 1").raised
  /\ FromDiskNow("Race 1").df # EmptyFrame
  /\ ~IsEmptyFrame(FromDiskNow("Race 1").df)

-----------------------------------------------------------------------------
(* The estimates when there is no telemetry *)

\* the metrics map the views get for the current selection
ViewMetrics ==
  process_telemetry(tel_long, selected_vehicle, lap_range_to(current_lap_filter)).metrics

\* the telemetry table is empty, or the proxy metric is not in the map
Unavailable(metric) == IsEmptyFrame(tel_long) \/ metric \notin DOMAIN ViewMetrics

Neutral == Present(<<DEFAULT_USAGE, 1>>)

KpiNeutral ==
  kpi_out # <<>> =>
    /\ Unavailable("fuel_usage") =>
         kpi_out[1].fuel = kpi_fuel_from(Neutral, current_lap_filter)
    /\ Unavailable("brake_usage") =>
         kpi_out[1].tyre = kpi_tyre_from(Neutral, current_lap_filter)

FuelTabNeutral ==
  fuel_out # <<>> /\ Unavailable("fuel_usage") =>
    \A lap \in DOMAIN fuel_out[1] : fuel_out[1][lap] = tab_fuel_from(Neutral, lap)

TyresTabNeutral ==
  tyres_out # <<>> /\ Unavailable("brake_usage") =>
    \A lap \in DOMAIN tyres_out[1] : tyres_out[1][lap] = tab_tyre_from(Neutral, lap)

\* C21: when telemetry is unavailable for the selection (empty telemetry table
\* or proxy metric missing from the metrics map), every view's fuel and
\* tyre-life estimate of a lap is the one it computes for a usage of 50.
C21_NeutralMidpointWhenUnavailable ==
  KpiNeutral /\ FuelTabNeutral /\ TyresTabNeutral

-----------------------------------------------------------------------------
(* The stored value as a mean of chunk means *)

\* the positions of the k-th chunk (from 0) of a stream cut by `size`
ChunkPositions(rows, size, k) ==
  {i \in 1..Len(rows) : i > k * size /\ i <= (k + 1) * size}

\* the numeric samples of a triple that fall into the k-th chunk
InChunk(rows, size, k, t) == NumericSamplesOf(rows, t) \cap ChunkPositions(rows, size, k)

\* the chunks that hold a numeric sample of the triple, in order
ChunksWith(rows, size, t) ==
  SelectSeq([j \in 1..Len(rows) |-> j - 1], LAMBDA k : InChunk(rows, size, k, t) # {})

\* the equal-weight mean of the chunk means
MeanOfChunkMeans(rows, size, t) ==
  LET ks == ChunksWith(rows, size, t)
      means == [j \in 1..Len(ks) |->
                  Frac(TenthsTotal(rows, InChunk(rows, size, ks[j], t)),
                       10 * Cardinality(InChunk(rows, size, ks[j], t)))]
      total == FracSum(means)
  IN Frac(total[1], total[2] * Len(ks))

\* all numeric samples of the triple in one chunk, or as many in each chunk
\* that holds any
EvenlyChunked(rows, size, t) ==
  LET ks == ChunksWith(rows, size, t)
  IN \A i, j \in 1..Len(ks) :
       Cardinality(InChunk(rows, size, ks[i], t)) = Cardinality(InChunk(rows, size, ks[j], t))

\* C22: the value the aggregator stores for a (vehicle_id, lap,
\* telemetry_name) triple is the equal-weight mean of the means of the chunks
\* that hold numeric samples of the triple; it is the exact mean of the
\* triple's samples when they all fall into one chunk or every such chunk
\* holds as many of them.
C22_MeanOfChunkMeans ==
  Aggregated =>
    \A cell \in parquet_file.table :
      /\ cell.value = MeanOfChunkMeans(raw_csv.rows, chunk_size, Triple(cell))
      /\ EvenlyChunked(raw_csv.rows, chunk_size, Triple(cell)) =>
           cell.value = MeanOverAllSamples(raw_csv.rows, Triple(cell))

\* a triple with two samples in one chunk and one in the next: the stored
\* value is the mean of the two chunk means and not the mean of the samples
C22_Witness ==
  /\ Aggregated
  /\ \E cell \in parquet_file.table :
       LET ks == ChunksWith(raw_csv.rows, chunk_size, Triple(cell))
       IN /\ Len(ks) = 2
          /\ Cardinality(InChunk(raw_csv.rows, chunk_size, ks[1], Triple(cell))) = 2
          /\ Cardinality(InChunk(raw_csv.rows, chunk_size, ks[2], Triple(cell))) = 1
          /\ cell.value # MeanOverAllSamples(raw_csv.rows, Triple(cell))
          /\ cell.value = MeanOfChunkMeans(raw_csv.rows, chunk_size, Triple(cell))

-----------------------------------------------------------------------------
(* Several rows of one sheet for the same vehicle and lap *)

\* the rows of the sheet with the vehicle and lap of row i
RowsOfPair(b, i) == {j \in 1..Len(b) : SameKey(b[j], b[i])}

\* for rows D of one pair: absent when a timestamp of them does not parse
\* (such a row orders last); else the greatest timestamp less the next
\* greatest one
DeltaWithinPair(b, D) ==
  IF \E j \in D : b[j].ts = <<>> THEN <<>>
  ELSE LET top == CHOOSE j \in D : \A m \in D : b[m].ts[1] <= b[j].ts[1]
           rest == D \ {top}
           next == CHOOSE j \in rest : \A m \in rest : b[m].ts[1] <= b[j].ts[1]
       IN <<b[top].ts[1] - b[next].ts[1]>>

\* for every pair with several rows the result has one record, with the
\* seconds between the pair's last two rows
RepeatedPairsKeepLast(df, res) ==
  LET b == Converted(df) IN
  \A i \in 1..Len(b) :
    Cardinality(RowsOfPair(b, i)) > 1 =>
      /\ Cardinality({k \in 1..Len(res.rows) : SameKey(res.rows[k], b[i])}) = 1
      /\ \A k \in 1..Len(res.rows) :
           SameKey(res.rows[k], b[i]) =>
             res.rows[k].lap_time_s = DeltaWithinPair(b, RowsOfPair(b, i))

\* C23: when a sheet has several rows for one (vehicle_id, lap),
\* compute_lap_time_from_timestamps keeps one record for the pair, the last in
\* (lap, timestamp) order: the row with the greatest timestamp, a timestamp
\* that does not parse ordering last; its lap_time_s is the seconds from the
\* preceding row of the same pair, not from the previous lap.
C23_RepeatedPairKeepsLast ==
  Built =>
    /\ ~end_laps.raised => RepeatedPairsKeepLast(end_df, end_laps)
    /\ ~time_laps.raised => RepeatedPairsKeepLast(time_df, time_laps)

\* vehicle 7 with lap 1 at T and lap 2 twice, at T and at T+90: the record of
\* lap 2 has the 90 seconds between its two rows
C23_Witness ==
  /\ Built
  /\ ~end_laps.raised
  /\ LET b == Converted(end_df)
     IN \E i, j, m \in 1..Len(b) :
          /\ b[i].vehicle_id = "7" /\ b[i].lap = <<1>> /\ b[i].ts # <<>>
          /\ b[j].vehicle_id = "7" /\ b[j].lap = <<2>> /\ b[j].ts = b[i].ts
          /\ b[m].vehicle_id = "7" /\ b[m].lap = <<2>> /\ b[m].ts = <<b[j].ts[1] + 90>>
          /\ Cardinality(RowsOfPair(b, j)) = 2
  /\ \E k \in 1..Len(end_laps.rows) :
       /\ end_laps.rows[k].vehicle_id = "7"
       /\ end_laps.rows[k].lap = <<2>>
       /\ end_laps.rows[k].lap_time_s = <<90>>

-----------------------------------------------------------------------------
(* Rows whose timestamp does not parse *)

\* the key of a sheet row: the id as text, the lap as an integer or absent
KeyOfRow(r) ==
  [vehicle_id |-> astype_str(r.vehicle_id), lap |-> astype_Int64(to_numeric(r.lap))]

Unparsed(r) == to_dt(r.timestamp) = <<>>

\* every row of the sheet without a parseable timestamp has its pair in the
\* result of the sheet, without a lap_time_s
UnparsedRowsKept(df, res) ==
  \A i \in 1..Len(df.rows) :
    Unparsed(df.rows[i]) =>
      /\ \E k \in 1..Len(res.rows) : SameKey(res.rows[k], KeyOfRow(df.rows[i]))
      /\ \A k \in 1..Len(res.rows) :
           SameKey(res.rows[k], KeyOfRow(df.rows[i])) => res.rows[k].lap_time_s = <<>>

\* the pairs of the output are the pairs of the sheets' rows that have a lap
OnlyLaplessRowsRemoved ==
  {KeyOfRow(r) : r \in {q \in SheetRows : KeyOfRow(q).lap # <<>>}}
    = {[vehicle_id |-> laps.rows[k].vehicle_id, lap |-> laps.rows[k].lap] :
         k \in 1..Len(laps.rows)}

\* C24: a timing row whose timestamp does not parse is not dropped and raises
\* nothing: its (vehicle_id, lap) is in the result computed from its sheet,
\* without a lap_time_s; build_laps removes only the rows without a numeric
\* lap.
C24_UnparsedTimestampKept ==
  Built =>
    /\ ~end_laps.raised => UnparsedRowsKept(end_df, end_laps)
    /\ ~time_laps.raised => UnparsedRowsKept(time_df, time_laps)
    /\ ~laps.raised => OnlyLaplessRowsRemoved
    /\ (end_laps.raised \/ time_laps.raised) =>
         \E r \in SheetRows : Int64CastFails(<<r>>, LAP_COL)

\* vehicle 7 has a single row for lap 2, with a timestamp that does not
\* parse, after a row for lap 1: lap 2 is in the output without a lap_time_s
C24_Witness ==
  /\ Returned
  /\ time_df.rows = <<>>
  /\ \E i \in 1..Len(end_df.rows) :
       /\ end_df.rows[i] = TimingRow(V7, L2, "garbage")
       /\ \A j \in 1..Len(end_df.rows) :
            j # i => KeyOfRow(end_df.rows[j]) # KeyOfRow(end_df.rows[i])
  /\ \E j \in 1..Len(end_df.rows) : end_df.rows[j] = TimingRow(V7, L1, "T+0")
  /\ \E k \in 1..Len(laps.rows) :
       /\ laps.rows[k].vehicle_id = "7"
       /\ laps.rows[k].lap = <<2>>
       /\ laps.rows[k].lap_time_s = <<>>

-----------------------------------------------------------------------------
(* Where the durations of the output come from *)

\* the lap_time_s table t has for the pair of r, absent when it has none
DurationIn(t, r) ==
  IF \E k \in 1..Len(t) : SameKey(t[k], r)
  THEN t[CHOOSE k \in 1..Len(t) : SameKey(t[k], r)].lap_time_s
  ELSE <<>>

\* a pair of the end log, not of the time log, to which the end log's
\* timestamps give a duration
EndOnlyWithDuration(r) ==
  /\ DurationIn(end_laps.rows, r) # <<>>
  /\ \A k \in 1..Len(time_laps.rows) : ~SameKey(time_laps.rows[k], r)

\* C25: when the lap-time log yields a record, every lap_time_s of the output
\* of build_laps is the lap-time log's: a pair of the lap-end log alone has
\* none, whatever its end-log timestamps give; the end log's durations are
\* the output's only when the lap-time log yields no record.
C25_DurationsFromTimeLog ==
  Returned =>
    \A k \in 1..Len(laps.rows) :
      laps.rows[k].lap_time_s =
        IF time_laps.rows # <<>> THEN DurationIn(time_laps.rows, laps.rows[k])
        ELSE DurationIn(end_laps.rows, laps.rows[k])

\* the time log yields a record, and a pair of the end log alone, with a
\* duration there, is in the output without one
C25_Witness ==
  /\ Returned
  /\ time_laps.rows # <<>>
  /\ \E k \in 1..Len(laps.rows) :
       /\ EndOnlyWithDuration(laps.rows[k])
       /\ laps.rows[k].lap_time_s = <<>>

-----------------------------------------------------------------------------
(* The filters of process_telemetry *)

\* the (vehicle_id, lap) keys an output shows: of its metric series and of
\* the rows of its wide table
KeysShown(o) ==
  UNION {DOMAIN o.metrics[m] : m \in DOMAIN o.metrics}
    \cup {<<c.vehicle_id, c.lap>> : c \in o.pivot.table}

\* the key is of the vehicle asked for and within the lap range asked for
WithinFilters(k) ==
  /\ ex_vehicle # <<>> => k[1] = TextCell(ex_vehicle[1])
  /\ ex_range # <<>> => ex_range[1][1] <= k[2] /\ k[2] <= ex_range[1][2]

\* C26: with a vehicle_id filter and/or a lap range (min, max), every
\* (vehicle_id, lap) key of every returned metric series and every row of the
\* returned wide table has the vehicle_id asked for and min <= lap <= max,
\* in the long and in the wide format.
C26_FilterSoundness ==
  \A o \in Outputs : \A k \in KeysShown(o) : WithinFilters(k)

\* both formats were processed with a vehicle and a lap range that leave out
\* a row of another vehicle and a row of an earlier lap, and something is left
C26_Witness ==
  /\ BothProcessed
  /\ ex_vehicle = <<"7">>
  /\ ex_range = <<<<4, 4>>>>
  /\ \E i \in 1..Len(tel_long.rows) : tel_long.rows[i].vehicle_id = V12
  /\ \E i \in 1..Len(tel_long.rows) :
       tel_long.rows[i].vehicle_id = V7t /\ tel_long.rows[i].lap = 3
  /\ KeysShown(long_out[1]) # {}
  /\ KeysShown(wide_out[1]) # {}

-----------------------------------------------------------------------------
(* The vehicle filter and the type of the vehicle_id column *)

\* the samples of the vehicle asked for, by its id as text, within the lap
\* range asked for, that carry a value
VehicleSamples ==
  {i \in 1..Len(tel_long.rows) :
     /\ astype_str(tel_long.rows[i].vehicle_id) = ex_vehicle[1]
     /\ ex_range # <<>> =>
          ex_range[1][1] <= tel_long.rows[i].lap /\ tel_long.rows[i].lap <= ex_range[1][2]
     /\ tel_long.rows[i].telemetry_value # <<>>}

VehicleKeys ==
  {<<tel_long.rows[i].vehicle_id, tel_long.rows[i].lap>> : i \in VehicleSamples}

\* the rows returned are the rows of the vehicle asked for
VehicleRowsReturned(o) ==
  /\ PivotKeys(o.pivot) = VehicleKeys
  /\ VehicleSamples # {} => o # EmptyOutput

\* C27: called with the id of a vehicle as the lap records have it (a
\* string), process_telemetry returns that vehicle's rows, whether the table's
\* vehicle_id column holds strings or numbers, and the empty result only when
\* the vehicle has no row in the lap range.
C27_VehicleFoundWhateverIdType ==
  ex_vehicle # <<>> => \A o \in Outputs : VehicleRowsReturned(o)

\* the vehicle_id column holds text
TextIds == \A i \in 1..Len(tel_long.rows) : tel_long.rows[i].vehicle_id.kind = "text"

-----------------------------------------------------------------------------
(* The sign of the durations *)

\* C28: every lap_time_s present in the output of build_laps is at least
\* zero, whatever the timing input, a later lap with an earlier timestamp
\* than a lower lap of the same vehicle included.
C28_DurationsNonNegative ==
  Returned =>
    \A k \in 1..Len(laps.rows) :
      laps.rows[k].lap_time_s # <<>> => laps.rows[k].lap_time_s[1] >= 0

\* the timestamps of each vehicle do not go back as the laps go up
TimestampsFollowLaps(df) ==
  LET b == Converted(df) IN
  \A i, j \in 1..Len(b) :
    (b[i].vehicle_id = b[j].vehicle_id /\ b[i].lap # <<>> /\ b[j].lap # <<>>
       /\ b[i].lap[1] < b[j].lap[1] /\ b[i].ts # <<>> /\ b[j].ts # <<>>)
      => b[i].ts[1] <= b[j].ts[1]

-----------------------------------------------------------------------------
(* Live mode *)

\* a step that is a call of handle_live_mode
LiveStep == run_pc = "sidebar" /\ run_pc' = "live"

\* the seconds since the last update, at the call
Elapsed == now - last_lap_update[1]

\* the greatest lap of the selected race
RaceMax == race_laps[selected_race]

SessionUnchanged ==
  UNCHANGED <<selected_race, selected_vehicle, current_lap_filter, last_lap_update, lap_live>>

LiveMax == IF RaceMax > 0 THEN RaceMax ELSE NO_DATA_MAX_LAP

-----------------------------------------------------------------------------
(* The range of the lap filter *)

\* render_sidebar or handle_live_mode has just run through
AfterRun == run_pc \in {"sidebar", "live"}

\* C30: after every run of the sidebar and of handle_live_mode, whatever the
\* race changes, live-mode toggles, slider moves and timer updates since the
\* initial session state, current_lap_filter is between 1 and the greatest
\* lap of the selected race, or is 1 when the race has no lap data.
C30_LapFilterInRange ==
  AfterRun =>
    IF RaceMax > 0 THEN current_lap_filter >= 1 /\ current_lap_filter <= RaceMax
    ELSE current_lap_filter = 1
====
